---- MODULE Spec2Model ----
(***************************************************************************)
(* Verification model of the subfield / list-selector / union validation   *)
(* runtime and of the parts of the validation-gen compiler that emit the   *)
(* getters and predicates it runs.                                         *)
(*                                                                         *)
(* Strings are sequences of one-character strings, so that quoting,        *)
(* sorting, sanitising and parsing are computed character by character.    *)
(***************************************************************************)
EXTENDS Integers, Sequences, FiniteSets, TLC

(***************************************************************************)
(* Bounds of the model.                                                    *)
(***************************************************************************)
\* longest newList / oldList handed to ListMapElementByKey
MaxLen == 3
\* longest Items list of an object handed to a union validator
MaxItems == 2
\* most union directives processed for the parent type before emission
MaxDirectives == 3
\* most union directive calls of a generation run whose call order is free
MaxCalls == 2

(***************************************************************************)
(* Strings.                                                                *)
(***************************************************************************)
\* the characters of the model in ascending byte order
Alphabet ==
  << "\"", ",", ":", "=", "A", "B", "D", "F", "I", "P", "T", "[", "\\", "]", "_",
     "a", "b", "d", "e", "i", "m", "n", "p", "r", "s", "t", "u", "y" >>

Code(c) == CHOOSE n \in 1..Len(Alphabet) : Alphabet[n] = c

RECURSIVE StrLess(_, _)
\* s < t in Go's string order (bytewise lexicographic)
StrLess(s, t) ==
  IF t = <<>> THEN FALSE
  ELSE IF s = <<>> THEN TRUE
  ELSE IF Head(s) = Head(t) THEN StrLess(Tail(s), Tail(t))
  ELSE Code(Head(s)) < Code(Head(t))

RECURSIVE SortStrings(_)
\* sort.Strings over the keys of a map: ascending, no duplicates
SortStrings(S) ==
  IF S = {} THEN <<>>
  ELSE LET m == CHOOSE x \in S : \A y \in S \ {x} : StrLess(x, y)
       IN <<m>> \o SortStrings(S \ {m})

MutQuoteUnescaped(s) == s

RECURSIVE Quote(_)
\* the inside of fmt's %q for a string of printable ASCII characters:
\* a double quote and a backslash are each preceded by a backslash
Quote(s) ==
  IF s = <<>> THEN <<>>
  ELSE (IF Head(s) \in {"\"", "\\"} THEN <<"\\", Head(s)>> ELSE <<Head(s)>>)
       \o Quote(Tail(s))

\* fmt.Sprintf("%q", s)
SprintfQ(s) == <<"\"">> \o Quote(s) \o <<"\"">>

\* strings.Index: position (from 1) of the first occurrence of sep, 0 if none
IndexOf(s, sep) ==
  LET hits == {n \in 1..(Len(s) - Len(sep) + 1) : SubSeq(s, n, n + Len(sep) - 1) = sep}
  IN IF hits = {} THEN 0 ELSE CHOOSE n \in hits : \A m \in hits : n <= m

HasPrefix(s, prefix) ==
  Len(s) >= Len(prefix) /\ SubSeq(s, 1, Len(prefix)) = prefix

\* strings.TrimPrefix
TrimPrefix(s, prefix) ==
  IF HasPrefix(s, prefix) THEN SubSeq(s, Len(prefix) + 1, Len(s)) ELSE s

RECURSIVE Split(_, _)
\* strings.Split for a non-empty separator
Split(s, sep) ==
  LET n == IndexOf(s, sep)
  IN IF n = 0 THEN <<s>>
     ELSE <<SubSeq(s, 1, n - 1)>> \o Split(SubSeq(s, n + Len(sep), Len(s)), sep)

\* strings.SplitN(s, sep, 2)
SplitN2(s, sep) ==
  LET n == IndexOf(s, sep)
  IN IF n = 0 THEN <<s>>
     ELSE <<SubSeq(s, 1, n - 1), SubSeq(s, n + Len(sep), Len(s))>>

sType == <<"t", "y", "p", "e">>
sStatus == <<"s", "t", "a", "t", "u", "s">>
sStringPtr == <<"s", "t", "r", "i", "n", "g", "P", "t", "r">>
\* JSON names of an int member, of a pointer-to-int member, of no member
sNum == <<"n", "u", "m">>
sNumPtr == <<"n", "u", "m", "P", "t", "r">>
sId == <<"i", "d">>
sItems == <<"I", "t", "e", "m", "s">>
sA == <<"A">>
sB == <<"B">>
sD == <<"D">>
sT == <<"T">>
sF == <<"F">>
\* a condition type with a colon in it
sAcolonB == <<"a", ":", "b">>
\* the Go names of the parent struct's optional members and discriminator
sRealA == <<"R", "a">>
sRealB == <<"R", "b">>
sDisc == <<"D", "i", "s", "c">>
sInd == <<"I", "n", "d">>
\* a union name
sUnionB == <<"b">>
sOther == <<"O">>
\* values with a double quote, with a backslash
sAquoteB == <<"a", "\"", "b">>
sAbackslashB == <<"a", "\\", "b">>

(***************************************************************************)
(* util.GeneratePathForMap                                                 *)
(***************************************************************************)
RECURSIVE JoinPairs(_, _, _)
JoinPairs(keys, keyValues, n) ==
  IF n > Len(keys) THEN <<>>
  ELSE (IF n > 1 THEN <<",">> ELSE <<>>)
       \o keys[n] \o <<"=">> \o SprintfQ(keyValues[keys[n]])
       \o JoinPairs(keys, keyValues, n + 1)

GeneratePathForMap(keyValues) ==
  JoinPairs(SortStrings(DOMAIN keyValues), keyValues, 1)

\* the orders in which `for k := range keyValues` can yield the keys
RangeOrders(keyValues) ==
  {q \in [1..Cardinality(DOMAIN keyValues) -> DOMAIN keyValues] :
     \A a, b \in DOMAIN q : a # b => q[a] # q[b]}

RECURSIVE InsertSorted(_, _)
InsertSorted(sorted, k) ==
  IF sorted = <<>> THEN <<k>>
  ELSE IF StrLess(k, Head(sorted)) THEN <<k>> \o sorted
  ELSE <<Head(sorted)>> \o InsertSorted(Tail(sorted), k)

MutSortSliceAsIterated(keys) == keys

RECURSIVE SortSlice(_)
\* sort.Strings on the slice the keys were appended to
SortSlice(keys) ==
  IF keys = <<>> THEN <<>>
  ELSE InsertSorted(SortSlice(SubSeq(keys, 1, Len(keys) - 1)), keys[Len(keys)])

\* GeneratePathForMap on a run whose map iteration yields the keys as `keys`
GeneratePathForMapFrom(keyValues, keys) ==
  JoinPairs(SortSlice(keys), keyValues, 1)

(***************************************************************************)
(* field.Path: a sequence of segments.                                     *)
(***************************************************************************)
NoStr == <<>>
PathChild(p, name) == Append(p, [kind |-> "child", name |-> name, index |-> 0])
PathIndex(p, n) == Append(p, [kind |-> "index", name |-> NoStr, index |-> n])
PathKey(p, k) == Append(p, [kind |-> "key", name |-> k, index |-> 0])
\* the path of the list field the directive is declared on
fldPath == PathChild(<<>>, <<"c">>)

(***************************************************************************)
(* List elements (MyCondition / Item) and the Element Matcher.             *)
(***************************************************************************)
\* a nil string pointer
NilPtr == [set |-> FALSE, val |-> NoStr]
PtrTo(s) == [set |-> TRUE, val |-> s]

\* the members of the element type: Go name, the name of its json tag (empty
\* for an embedded member tagged `json:",inline"`), kind
ElemMembers ==
  << [name |-> "Type", json |-> sType, kind |-> "string"],
     [name |-> "Status", json |-> sStatus, kind |-> "string"],
     [name |-> "StringPtr", json |-> sStringPtr, kind |-> "ptrstring"],
     [name |-> "Num", json |-> sNum, kind |-> "int"],
     [name |-> "NumPtr", json |-> sNumPtr, kind |-> "ptrint"],
     [name |-> "Meta", json |-> NoStr, kind |-> "struct"] >>

\* m.Name as a string
GoName(m) ==
  CASE m.name = "Type" -> <<"T", "y", "p", "e">>
    [] m.name = "Status" -> <<"S", "t", "a", "t", "u", "s">>
    [] m.name = "StringPtr" -> <<"S", "t", "r", "i", "n", "g", "P", "t", "r">>
    [] m.name = "Num" -> <<"N", "u", "m">>
    [] m.name = "NumPtr" -> <<"N", "u", "m", "P", "t", "r">>
    [] m.name = "Meta" -> <<"M", "e", "t", "a">>

\* JSONName := m.Name; if ok && jsonAnnotation.Name != "" { JSONName = ... }
EffectiveJSONName(m) == IF m.json # NoStr THEN m.json ELSE GoName(m)

\* index of the first member whose JSON name is jsonKey, 0 when there is none
getFieldNameFromJSONKey(jsonKey) ==
  IF \E n \in 1..Len(ElemMembers) : EffectiveJSONName(ElemMembers[n]) = jsonKey
  THEN CHOOSE n \in 1..Len(ElemMembers) :
         /\ EffectiveJSONName(ElemMembers[n]) = jsonKey
         /\ \A m \in 1..(n - 1) : EffectiveJSONName(ElemMembers[m]) # jsonKey
  ELSE 0

\* getMemberByJSON: index of the first member whose json tag has the name
\* jsonName (every member of the element type has a json tag), 0 when none
getMemberByJSON(jsonName) ==
  IF \E n \in 1..Len(ElemMembers) : ElemMembers[n].json = jsonName
  THEN CHOOSE n \in 1..Len(ElemMembers) :
         /\ ElemMembers[n].json = jsonName
         /\ \A m \in 1..(n - 1) : ElemMembers[m].json # jsonName
  ELSE 0

MkItem(t, s, p) == [Type |-> t, Status |-> s, StringPtr |-> p]
ZeroItem == MkItem(NoStr, NoStr, NilPtr)

\* one condition of the generated match function, for selector key jsonKey
MatchCondition(item, jsonKey, expected) ==
  LET m == ElemMembers[getFieldNameFromJSONKey(jsonKey)]
  IN CASE m.name = "Type" -> item.Type = expected
       [] m.name = "Status" -> item.Status = expected
       [] m.name = "StringPtr" -> item.StringPtr.set /\ item.StringPtr.val = expected

MutMatchAny(isNil, item, listElems) ==
  /\ ~isNil
  /\ \E k \in DOMAIN listElems : MatchCondition(item, k, listElems[k])

\* the predicate the compiler generates for a selector: false for a nil
\* element, otherwise the conjunction of the conditions of all keys
Matches(isNil, item, listElems) ==
  /\ ~isNil
  /\ \A k \in DOMAIN listElems : MatchCondition(item, k, listElems[k])

\* matchesAllSelectors of the reflection-based revision: every selector key
\* must name a string (or non-nil string pointer) field holding the value
getReflectedJSONFieldValueAsString(item, jsonKeyName) ==
  LET n == getFieldNameFromJSONKey(jsonKeyName)
  IN IF n = 0 THEN [ok |-> FALSE, val |-> NoStr]
     ELSE CASE ElemMembers[n].name = "Type" -> [ok |-> TRUE, val |-> item.Type]
            [] ElemMembers[n].name = "Status" -> [ok |-> TRUE, val |-> item.Status]
            [] ElemMembers[n].name = "StringPtr" ->
                 IF item.StringPtr.set THEN [ok |-> TRUE, val |-> item.StringPtr.val]
                 ELSE [ok |-> FALSE, val |-> NoStr]

matchesAllSelectors(item, m) ==
  \A matchK \in DOMAIN m :
    LET r == getReflectedJSONFieldValueAsString(item, matchK)
    IN r.ok /\ r.val = m[matchK]

(***************************************************************************)
(* Compilation of a selector into the match function literal.              *)
(***************************************************************************)
\* the three revisions of the selector compiler in validators/subfield.go
CompilerRevisions == {"createMatchFn", "inline", "createMatchFnLiteral"}

NoCondition == [ok |-> FALSE, field |-> "", deref |-> FALSE, expected |-> NoStr]

\* the condition a revision generates for one selector key, or its error:
\*   deref:  (item.F != nil && *item.F == "expected")
\*   plain:  item.F == "expected"
CompileCondition(crev, jsonKey, expected) ==
  LET n == getFieldNameFromJSONKey(jsonKey)
      kind == ElemMembers[n].kind
      cond(d) == [ok |-> TRUE, field |-> ElemMembers[n].name, deref |-> d,
                  expected |-> expected]
  IN IF n = 0 THEN NoCondition
     ELSE CASE crev = "createMatchFn" ->
                 IF kind = "ptrstring" THEN cond(TRUE)
                 ELSE IF kind = "string" THEN cond(FALSE)
                 ELSE NoCondition
            [] crev = "inline" -> cond(kind = "ptrstring")
            [] crev = "createMatchFnLiteral" -> cond(kind \in {"ptrstring", "ptrint"})

\* the match function literal of a selector: one condition per key (in sorted
\* key order where the revision sorts), or the first error
CompileSelector(crev, listElems) ==
  LET sortedKeys == SortStrings(DOMAIN listElems)
      conds == [n \in 1..Len(sortedKeys) |->
                  CompileCondition(crev, sortedKeys[n], listElems[sortedKeys[n]])]
  IN IF \E n \in 1..Len(conds) : ~conds[n].ok
     THEN [ok |-> FALSE, conditions |-> <<>>]
     ELSE [ok |-> TRUE, conditions |-> conds]

\* a literal is Go code the compiler accepts when every condition compares a
\* string, or a dereferenced string pointer, with the string constant
WellTyped(lit) ==
  \A n \in 1..Len(lit.conditions) :
    LET c == lit.conditions[n]
    IN \/ c.field \in {"Type", "Status"} /\ ~c.deref
       \/ c.field = "StringPtr" /\ c.deref

\* one condition of a literal evaluated on an element
EvalCondition(c, item) ==
  CASE c.field = "Type" -> item.Type = c.expected
    [] c.field = "Status" -> item.Status = c.expected
    [] c.field = "StringPtr" -> item.StringPtr.set /\ item.StringPtr.val = c.expected

MutEvalMatchFnAny(lit, isNil, item) ==
  IF isNil THEN FALSE
  ELSE \E n \in 1..Len(lit.conditions) : EvalCondition(lit.conditions[n], item)

\* the literal run on an element pointer:
\*   if item == nil { return false }; return c1 && c2 && ...
EvalMatchFn(lit, isNil, item) ==
  IF isNil THEN FALSE
  ELSE \A n \in 1..Len(lit.conditions) : EvalCondition(lit.conditions[n], item)

(***************************************************************************)
(* Lists: a Go slice is nil or a (possibly empty) sequence of elements.    *)
(***************************************************************************)
NilList == [isNil |-> TRUE, items |-> <<>>]
MkList(items) == [isNil |-> FALSE, items |-> items]

RECURSIVE SeqsUpTo(_, _)
SeqsUpTo(S, n) ==
  IF n = 0 THEN {<<>>}
  ELSE LET shorter == SeqsUpTo(S, n - 1)
       IN shorter \cup {Append(q, x) : q \in {r \in shorter : Len(r) = n - 1}, x \in S}

ListsUpTo(S, n) == {NilList} \cup {MkList(q) : q \in SeqsUpTo(S, n)}

(***************************************************************************)
(* State.                                                                  *)
(***************************************************************************)
VARIABLES
  rev,        \* which revision of ListMapElementByKey runs
  newList,    \* its newList argument
  oldList,    \* its oldList argument
  selector,   \* the selector the directive was compiled from
  ev,         \* the nested validator wrapped as elementValidator
  pc,         \* position of the call: idle, new, old, done
  i,          \* loop index (as in Go, from 0)
  processedOldIndices, \* indices of oldList already paired
  calls,      \* the elementValidator invocations so far, in order
  errs        \* the accumulated field.ErrorList

pairVars == <<rev, newList, oldList, selector, ev, pc, i, processedOldIndices, calls, errs>>

VARIABLES
  shared,   \* the accumulator: struct type -> union name -> union
  ndirs,    \* number of union directive calls processed
  dlog,     \* the directive calls that returned without error, in call order
  emitted,  \* what the latest unionTypeValidator.GetValidations call returned
  erun,     \* that call: its type and how many directives had been processed
  prev,     \* the call of unionTypeValidator.GetValidations before it
  upc,      \* collect, emitted, failed, validated
  uobj,     \* the object handed to the emitted validators
  uerrs     \* the errors they returned

unionVars == <<shared, ndirs, dlog, emitted, erun, prev, upc, uobj, uerrs>>

VARIABLES
  fpc,   \* position of a single function application: idle, ready, compiled, done
  fin,   \* its inputs
  fout   \* what it produced

fnVars == <<fpc, fin, fout>>

vars == <<pairVars, unionVars, fnVars>>

\* the three revisions of ListMapElementByKey in the repository
Revisions == {"perIndex", "grouped", "reflect"}
\* the nested validators of the fixtures
Validators == {"validateFalse", "validateTrue"}

PairItems == {MkItem(sA, sT, NilPtr), MkItem(sA, sF, NilPtr), MkItem(sB, sT, NilPtr)}
PairSelectors == {(sType :> sA), (sType :> sA) @@ (sStatus :> sT), (sStatus :> sT)}

\* the +listMapKey names declared on the list field (parseListMapKeys)
listMapKeys == {sType}

\* the check of the key-requiring compiler revision: every declared
\* list-map key is a key of the selector
ContainsAllListMapKeys(listElems) ==
  /\ listMapKeys # {}
  /\ \A listMapKey \in listMapKeys : \E k \in DOMAIN listElems : listMapKey = k

(***************************************************************************)
(* ListMapElementByKey                                                     *)
(***************************************************************************)
\* elementValidator: the wrapped nested validator, called with a path
ElementValidator(v, path, newIdx, oldIdx) ==
  IF v = "validateFalse" THEN <<[path |-> path, detail |-> "forced failure"]>>
  ELSE <<>>

\* the predicate of the running revision applied to &list[n] (n from 0)
MatchesAt(list, n) ==
  IF rev = "reflect" THEN matchesAllSelectors(list.items[n + 1], selector)
  ELSE Matches(FALSE, list.items[n + 1], selector)

\* elementPathForSelector of the grouped revisions
ElementPathForSelector == PathKey(fldPath, GeneratePathForMap(selector))

MutCallPathAlwaysIndex(n) == PathIndex(fldPath, n)

MutCallPathAlwaysKey(n) == ElementPathForSelector

\* the path handed to elementValidator for the element at index n
CallPath(n) ==
  IF rev = "perIndex" THEN PathIndex(fldPath, n) ELSE ElementPathForSelector

MutFirstOldMatchIgnoringProcessed ==
  LET c == {j \in 0..(Len(oldList.items) - 1) : MatchesAt(oldList, j)}
  IN IF c = {} THEN -1 ELSE CHOOSE j \in c : \A k \in c : j <= k

MutLastOldMatch ==
  LET c == {j \in 0..(Len(oldList.items) - 1) :
              j \notin processedOldIndices /\ MatchesAt(oldList, j)}
  IN IF c = {} THEN -1 ELSE CHOOSE j \in c : \A k \in c : j >= k

\* the inner loop: the first index of oldList that is not yet processed and
\* matches, or -1
FirstOldMatch ==
  LET c == {j \in 0..(Len(oldList.items) - 1) :
              j \notin processedOldIndices /\ MatchesAt(oldList, j)}
  IN IF c = {} THEN -1 ELSE CHOOSE j \in c : \A k \in c : j <= k

Invocation(path, newIdx, oldIdx) ==
  [path |-> path,
   newIdx |-> newIdx, oldIdx |-> oldIdx,
   newObj |-> IF newIdx < 0 THEN ZeroItem ELSE newList.items[newIdx + 1],
   oldObj |-> IF oldIdx < 0 THEN ZeroItem ELSE oldList.items[oldIdx + 1],
   \* the reflection-based revision passes the address of a loop-local copy
   newIsCopy |-> (newIdx >= 0 /\ rev = "reflect")]

\* entry: the declarations before the first loop
Call(r, nl, ol, sel, v) ==
  /\ pc = "idle"
  /\ rev' = r /\ newList' = nl /\ oldList' = ol /\ selector' = sel /\ ev' = v
  /\ pc' = "new" /\ i' = 0
  /\ processedOldIndices' = {}
  /\ calls' = <<>> /\ errs' = <<>>
  /\ UNCHANGED <<unionVars, fnVars>>

\* one iteration of `for i := range newList`
NewListStep ==
  /\ pc = "new" /\ i < Len(newList.items)
  /\ IF ~MatchesAt(newList, i)
     THEN UNCHANGED <<processedOldIndices, calls, errs>>
     ELSE LET oldJ == FirstOldMatch
              path == CallPath(i)
          IN /\ processedOldIndices' =
                  IF oldJ < 0 THEN processedOldIndices
                  ELSE processedOldIndices \cup {oldJ}
             /\ calls' = Append(calls, Invocation(path, i, oldJ))
             /\ errs' = errs \o ElementValidator(ev, path, i, oldJ)
  /\ i' = i + 1
  /\ UNCHANGED <<rev, newList, oldList, selector, ev, pc>>
  /\ UNCHANGED <<unionVars, fnVars>>

\* the first loop ends, the second begins
NewListDone ==
  /\ pc = "new" /\ i = Len(newList.items)
  /\ pc' = "old" /\ i' = 0
  /\ UNCHANGED <<rev, newList, oldList, selector, ev, processedOldIndices, calls, errs>>
  /\ UNCHANGED <<unionVars, fnVars>>

MutOldOnlyGuardIgnoresProcessed(n) == MatchesAt(oldList, n)

MutOldOnlyGuardIgnoresMatch(n) == n \notin processedOldIndices

\* the guard of the second loop's body
OldOnlyGuard(n) == n \notin processedOldIndices /\ MatchesAt(oldList, n)

\* one iteration of `for i := range oldList`
OldListStep ==
  /\ pc = "old" /\ i < Len(oldList.items)
  /\ IF OldOnlyGuard(i)
     THEN LET path == CallPath(i)
          IN /\ calls' = Append(calls, Invocation(path, -1, i))
             /\ errs' = errs \o ElementValidator(ev, path, -1, i)
     ELSE UNCHANGED <<calls, errs>>
  /\ i' = i + 1
  /\ UNCHANGED <<rev, newList, oldList, selector, ev, pc, processedOldIndices>>
  /\ UNCHANGED <<unionVars, fnVars>>

\* return errs
Return ==
  /\ pc = "old" /\ i = Len(oldList.items)
  /\ pc' = "done"
  /\ UNCHANGED <<rev, newList, oldList, selector, ev, i, processedOldIndices, calls, errs>>
  /\ UNCHANGED <<unionVars, fnVars>>

(***************************************************************************)
(* Union directives: virtual members, accumulation, emission.              *)
(***************************************************************************)
virtualMemberPrefix == <<"_", "s", "u", "b", "f", "i", "e", "l", "d", "_">>
sIs == <<"_", "i", "s", "_">>
sAnd == <<"_", "a", "n", "d", "_">>

RECURSIVE sanitizeForVirtualName(_)
\* the strings.Replacer of the compiler, one byte at a time
sanitizeForVirtualName(s) ==
  IF s = <<>> THEN <<>>
  ELSE (CASE Head(s) = "\"" -> <<>>
          [] Head(s) = "=" -> sIs
          [] Head(s) = "," -> sAnd
          [] Head(s) \in {"[", "]", ":"} -> <<"_">>
          [] OTHER -> <<Head(s)>>)
       \o sanitizeForVirtualName(Tail(s))

\* the name of the virtual member the subfield directive synthesizes
VirtualMemberName(listFieldName, listElems) ==
  virtualMemberPrefix \o listFieldName \o <<"_">>
    \o sanitizeForVirtualName(GeneratePathForMap(listElems))

\* the members of the parent struct: Go name, JSON name, kind
ParentMembers ==
  << [Name |-> sItems, json |-> <<"i", "t", "e", "m", "s">>, kind |-> "list"],
     [Name |-> sRealA, json |-> <<"r", "a">>, kind |-> "ptr"],
     [Name |-> sRealB, json |-> <<"r", "b">>, kind |-> "ptr"],
     [Name |-> sDisc, json |-> <<"d", "i", "s", "c">>, kind |-> "string"],
     [Name |-> sInd, json |-> <<"i", "n", "d">>, kind |-> "string"] >>

\* index in ParentMembers of the field with this Go name, 0 when none
getMemberPtr(goFieldName) ==
  IF \E n \in 1..Len(ParentMembers) : ParentMembers[n].Name = goFieldName
  THEN CHOOSE n \in 1..Len(ParentMembers) : ParentMembers[n].Name = goFieldName
  ELSE 0

NoSel == [k \in {} |-> NoStr]

\* a real field of the parent as context.Member (declSel is unused for it)
RealMember(n) ==
  [Name |-> ParentMembers[n].Name, json |-> ParentMembers[n].json,
   kind |-> ParentMembers[n].kind, declSel |-> NoSel]

\* the types.Member the list-selector directive hands to its payload; declSel
\* records the selector the directive was declared with, for the properties
VirtualMember(listFieldName, listElems) ==
  [Name |-> VirtualMemberName(listFieldName, listElems),
   json |-> VirtualMemberName(listFieldName, listElems),
   kind |-> "elem", declSel |-> listElems]

isVirtualListMember(m) == HasPrefix(m.Name, virtualMemberPrefix)

\* the selectors of the list-selector directives that carry a unionMember
UnionSelectors ==
  { (sStatus :> sT) @@ (sType :> sA),
    (sStatus :> sT) @@ (sType :> sD),
    (sType :> sAcolonB) }

\* the struct types of the generation run (context.Parent)
Types == {"Struct", "Other"}

Directive(tag, parent, union, member) ==
  [tag |-> tag, parent |-> parent, union |-> union, member |-> member]

\* the union directive calls that can reach the parent type Struct
UnionDirectives ==
  {Directive("member", "Struct", NoStr, VirtualMember(sItems, sel)) : sel \in UnionSelectors}
  \cup {Directive("member", "Struct", NoStr, RealMember(n)) : n \in {2, 3}}
  \cup {Directive("discriminator", "Struct", NoStr, RealMember(4))}

\* the union directive calls of a run over two types and two union names
CompileDirectives ==
  {Directive("member", "Struct", u, m) :
     u \in {NoStr, sUnionB},
     m \in {RealMember(2), VirtualMember(sItems, (sStatus :> sT) @@ (sType :> sA))}}
  \cup {Directive("discriminator", "Struct", u, RealMember(n)) :
          u \in {NoStr, sUnionB}, n \in {4, 5}}
  \cup {Directive("member", "Other", NoStr, RealMember(2)),
        Directive("discriminator", "Other", NoStr, RealMember(4))}

NoMember == [Name |-> NoStr, json |-> NoStr, kind |-> "none", declSel |-> NoSel]

\* &union{}
NewUnion ==
  [fields |-> <<>>, fieldMembers |-> <<>>,
   hasDiscriminator |-> FALSE, discriminator |-> NoStr, discriminatorMember |-> NoMember]

\* make(unions)
NoUnions == [n \in {} |-> NewUnion]

\* shared[parentStructType] after `if shared[t] == nil { shared[t] = make(unions) }`
UnionsOf(sh, t) == IF t \in DOMAIN sh THEN sh[t] ELSE NoUnions

MutGetOrCreateAlwaysNew(us, name) == NewUnion

\* unions.getOrCreate
getOrCreate(us, name) == IF name \in DOMAIN us THEN us[name] ELSE NewUnion

\* the accumulator with the union `name` of type t set to u
WithUnion(sh, t, name, u) == (t :> ((name :> u) @@ UnionsOf(sh, t))) @@ sh

\* the JSON name of a member, its Go name when it has none
FieldNameOf(m) == IF m.json # NoStr THEN m.json ELSE m.Name

\* the accumulator after a member directive got its descriptor and appended
MemberAppended(sh, d) ==
  LET u == getOrCreate(UnionsOf(sh, d.parent), d.union)
      u2 == [u EXCEPT !.fields = Append(@, <<FieldNameOf(d.member), d.member.Name>>),
                      !.fieldMembers = Append(@, d.member)]
  IN WithUnion(sh, d.parent, d.union, u2)

\* the accumulator after a discriminator directive got its descriptor and
\* wrote the discriminator
DiscriminatorSet(sh, d) ==
  LET u == getOrCreate(UnionsOf(sh, d.parent), d.union)
      u2 == [u EXCEPT !.hasDiscriminator = TRUE,
                      !.discriminator = FieldNameOf(d.member),
                      !.discriminatorMember = d.member]
  IN WithUnion(sh, d.parent, d.union, u2)

\* unionMemberTagValidator.GetValidations
UnionMember(d) ==
  /\ d.tag = "member"
  /\ shared' = MemberAppended(shared, d)
  /\ ndirs' = ndirs + 1
  /\ dlog' = Append(dlog, d)
  /\ UNCHANGED <<emitted, erun, prev, upc, uobj, uerrs>>
  /\ UNCHANGED <<pairVars, fnVars>>

\* unionDiscriminatorTagValidator.GetValidations, on a string field
UnionDiscriminator(d) ==
  /\ d.tag = "discriminator" /\ d.member.kind = "string"
  /\ shared' = DiscriminatorSet(shared, d)
  /\ ndirs' = ndirs + 1
  /\ dlog' = Append(dlog, d)
  /\ UNCHANGED <<emitted, erun, prev, upc, uobj, uerrs>>
  /\ UNCHANGED <<pairVars, fnVars>>

\* the selector parts of a virtual member name: <<key, value>> pairs, or a
\* part without "_is_" left as a one-element sequence
SelectorParts(selectorStr) ==
  LET sps == Split(selectorStr, sAnd)
  IN [n \in 1..Len(sps) |-> SplitN2(sps[n], sIs)]

\* parseVirtualMemberMetadata
parseVirtualMemberMetadata(virtualMemberName) ==
  LET failed == [ok |-> FALSE, listFieldName |-> NoStr, selectorMap |-> NoSel]
      parts == SplitN2(TrimPrefix(virtualMemberName, virtualMemberPrefix), <<"_">>)
  IN IF ~HasPrefix(virtualMemberName, virtualMemberPrefix) \/ Len(parts) < 2 THEN failed
     ELSE LET kvs == SelectorParts(parts[2])
          IN IF \E n \in 1..Len(kvs) :
                  Len(kvs[n]) # 2 \/ getMemberByJSON(kvs[n][1]) = 0
             THEN failed
             ELSE [ok |-> TRUE,
                   listFieldName |-> parts[1],
                   \* a later part overwrites an earlier one with the same key
                   selectorMap |->
                     [k \in {kvs[n][1] : n \in 1..Len(kvs)} |->
                        kvs[CHOOSE n \in 1..Len(kvs) :
                              /\ kvs[n][1] = k
                              /\ \A m \in (n + 1)..Len(kvs) : kvs[m][1] # k][2]]]

NoGetter == [virtual |-> FALSE, field |-> NoStr, sel |-> NoSel]

MutMemberGetterDeclaredSelector(m) ==
  IF isVirtualListMember(m)
  THEN [ok |-> TRUE, getter |-> [virtual |-> TRUE, field |-> sItems, sel |-> m.declSel]]
  ELSE [ok |-> TRUE, getter |-> [virtual |-> FALSE, field |-> m.Name, sel |-> NoSel]]

\* the getter literal emitted for one member of a union, or a failure
MemberGetter(m) ==
  IF isVirtualListMember(m)
  THEN LET meta == parseVirtualMemberMetadata(m.Name)
       IN IF ~meta.ok \/ getMemberPtr(meta.listFieldName) = 0
          THEN [ok |-> FALSE, getter |-> NoGetter]
          ELSE [ok |-> TRUE,
                getter |-> [virtual |-> TRUE, field |-> meta.listFieldName,
                            sel |-> meta.selectorMap]]
  ELSE [ok |-> TRUE, getter |-> [virtual |-> FALSE, field |-> m.Name, sel |-> NoSel]]

\* the orders `for jsonKey := range selectorMap` is modelled to yield
IterationOrders == {"ascending", "descending"}

RECURSIVE Reverse(_)
Reverse(q) == IF q = <<>> THEN <<>> ELSE Append(Reverse(Tail(q)), Head(q))

\* the selector keys of a getter's conditions, in the order they are joined
ConditionKeys(g, it) ==
  IF it = "ascending" THEN SortStrings(DOMAIN g.sel)
  ELSE Reverse(SortStrings(DOMAIN g.sel))

\* the variable and the function emitted for one union of the type
EmitUnion(structType, unionName, u, it) ==
  [fn |-> IF u.hasDiscriminator THEN "DiscriminatedUnion" ELSE "Union",
   var |-> <<structType, unionName>>,
   union |-> unionName,
   discriminator |-> u.discriminator,
   discriminatorMember |-> u.discriminatorMember.Name,
   members |-> u.fields,
   getters |-> [n \in 1..Len(u.fieldMembers) |-> MemberGetter(u.fieldMembers[n]).getter],
   conditions |-> [n \in 1..Len(u.fieldMembers) |->
                     ConditionKeys(MemberGetter(u.fieldMembers[n]).getter, it)]]

MutUnionNamesAsCreated(S) ==
  LET first(n) == CHOOSE k \in 1..Len(dlog) :
                    /\ dlog[k].union = n
                    /\ \A j \in 1..(k - 1) : dlog[j].union # n
      RECURSIVE ByCreation(_)
      ByCreation(R) ==
        IF R = {} THEN <<>>
        ELSE LET m == CHOOSE x \in R : \A y \in R : first(x) <= first(y)
             IN <<m>> \o ByCreation(R \ {m})
  IN ByCreation(S)

\* unionNames: the keys of the type's unions, after slices.Sort
UnionNames(S) == SortStrings(S)

\* unionTypeValidator.GetValidations: the unions in sorted name order, those
\* without member and discriminator skipped; any failure fails the whole call
EmitAll(structType, it) ==
  LET unionsData == UnionsOf(shared, structType)
      unionNames == UnionNames(DOMAIN unionsData)
      keep(n) == Len(unionsData[n].fieldMembers) # 0 \/ unionsData[n].hasDiscriminator
      kept == SelectSeq(unionNames, keep)
      bad == \E n \in 1..Len(kept) :
               \E m \in 1..Len(unionsData[kept[n]].fieldMembers) :
                 ~MemberGetter(unionsData[kept[n]].fieldMembers[m]).ok
  IN IF bad THEN [ok |-> FALSE, functions |-> <<>>]
     ELSE [ok |-> TRUE,
           functions |-> [n \in 1..Len(kept) |->
                            EmitUnion(structType, kept[n], unionsData[kept[n]], it)]]

NoRun == [type |-> "", at |-> 0, ok |-> FALSE, functions |-> <<>>]

\* one call of unionTypeValidator.GetValidations for a type
EmitType(structType, it) ==
  /\ emitted' = EmitAll(structType, it).functions
  /\ erun' = [type |-> structType, at |-> Len(dlog), ok |-> EmitAll(structType, it).ok]
  /\ prev' = IF erun.type = "" THEN NoRun
             ELSE [type |-> erun.type, at |-> erun.at, ok |-> erun.ok,
                   functions |-> emitted]
  /\ upc' = IF EmitAll(structType, it).ok THEN "emitted" ELSE "failed"
  /\ UNCHANGED <<shared, ndirs, dlog, uobj, uerrs>>
  /\ UNCHANGED <<pairVars, fnVars>>

\* the type validator of Struct, called once its field directives are done
Emit ==
  /\ upc = "collect"
  /\ \E it \in IterationOrders : EmitType("Struct", it)

(***************************************************************************)
(* The emitted union validators at validation time.                        *)
(***************************************************************************)
\* the elements of the Items list of the objects
UnionItems ==
  {MkItem(sA, sT, NilPtr), MkItem(sD, sT, NilPtr), MkItem(sA, sF, NilPtr),
   MkItem(sAcolonB, sT, NilPtr)}

\* the objects of type Struct; Ind is left at one value
UnionObjects ==
  {[Items |-> l, Ra |-> a, Rb |-> b, Disc |-> d, Ind |-> sOther] :
     l \in ListsUpTo(UnionItems, MaxItems), a \in BOOLEAN, b \in BOOLEAN,
     d \in {sRealA, sRealB, sOther}}

\* the discriminator accessor literal: return obj.<discMemberName>
DiscriminatorValue(f, obj) ==
  IF f.discriminatorMember = sInd THEN obj.Ind ELSE obj.Disc

\* one `listItem.<Field> == "<value>"` condition of a virtual member getter
GetterCondition(item, jsonKey, expected) ==
  LET m == ElemMembers[getFieldNameFromJSONKey(jsonKey)]
  IN CASE m.name = "Type" -> item.Type = expected
       [] m.name = "Status" -> item.Status = expected
       [] OTHER -> FALSE

\* whether the getter literal of a member returns a non-nil value for obj
GetterValue(g, obj) ==
  IF g.virtual
  THEN /\ ~obj.Items.isNil
       /\ \E n \in 1..Len(obj.Items.items) :
            \A k \in DOMAIN g.sel : GetterCondition(obj.Items.items[n], k, g.sel[k])
  ELSE CASE g.field = sRealA -> obj.Ra
         [] g.field = sRealB -> obj.Rb
         [] OTHER -> FALSE

\* the field names of the members of f whose getter yields a present value,
\* in declaration order
SpecifiedFields(f, obj) ==
  LET present(n) == GetterValue(f.getters[n], obj)
      idx == SelectSeq([n \in 1..Len(f.getters) |-> n], present)
  IN [n \in 1..Len(idx) |-> f.members[idx[n]][1]]

AllFields(f) == [n \in 1..Len(f.members) |-> f.members[n][1]]
LegalValues(f) == [n \in 1..Len(f.members) |-> f.members[n][2]]

\* the path of the struct that owns the union (nil in the fixtures)
OwningPath == <<>>

MutUnionAtMostOne(f, obj) ==
  IF Len(SpecifiedFields(f, obj)) <= 1 THEN <<>>
  ELSE <<[path |-> OwningPath, value |-> SpecifiedFields(f, obj),
          kind |-> "exactlyOneOf", names |-> AllFields(f)]>>

MutUnionListsPresentOnly(f, obj) ==
  IF Len(SpecifiedFields(f, obj)) = 1 THEN <<>>
  ELSE <<[path |-> OwningPath, value |-> SpecifiedFields(f, obj),
          kind |-> "exactlyOneOf", names |-> SpecifiedFields(f, obj)]>>

\* validate.Union: exactly one member present, else one error at the owning
\* path that lists every declared member and carries the present ones
Union(f, obj) ==
  IF Len(SpecifiedFields(f, obj)) = 1 THEN <<>>
  ELSE <<[path |-> OwningPath, value |-> SpecifiedFields(f, obj),
          kind |-> "exactlyOneOf", names |-> AllFields(f)]>>

MutDiscriminatedUnionRejectsOthers(f, obj) ==
  IF /\ \E n \in 1..Len(f.members) :
          f.members[n][2] = DiscriminatorValue(f, obj) /\ GetterValue(f.getters[n], obj)
     /\ \A n \in 1..Len(f.members) :
          GetterValue(f.getters[n], obj) => f.members[n][2] = DiscriminatorValue(f, obj)
  THEN <<>>
  ELSE <<[path |-> OwningPath, value |-> <<DiscriminatorValue(f, obj)>>,
          kind |-> "discriminator", names |-> LegalValues(f)]>>

\* validate.DiscriminatedUnion: the member whose discriminator value the
\* discriminator field holds must be present; the other members are not looked at
DiscriminatedUnion(f, obj) ==
  IF \E n \in 1..Len(f.members) :
       f.members[n][2] = DiscriminatorValue(f, obj) /\ GetterValue(f.getters[n], obj)
  THEN <<>>
  ELSE <<[path |-> OwningPath, value |-> <<DiscriminatorValue(f, obj)>>,
          kind |-> "discriminator", names |-> LegalValues(f)]>>

RunFunction(f, obj) ==
  IF f.fn = "Union" THEN Union(f, obj) ELSE DiscriminatedUnion(f, obj)

RECURSIVE RunAll(_, _, _)
RunAll(fs, obj, n) ==
  IF n > Len(fs) THEN <<>> ELSE RunFunction(fs[n], obj) \o RunAll(fs, obj, n + 1)

\* the generated type validator runs the emitted functions on an object
Validate(obj) ==
  /\ upc = "emitted"
  /\ uobj' = obj
  /\ uerrs' = RunAll(emitted, obj, 1)
  /\ upc' = "validated"
  /\ UNCHANGED <<shared, ndirs, dlog, emitted, erun, prev>>
  /\ UNCHANGED <<pairVars, fnVars>>

(***************************************************************************)
(* Specifications.                                                         *)
(***************************************************************************)
PairInit ==
  /\ rev = "perIndex" /\ newList = NilList /\ oldList = NilList
  /\ selector = (sType :> sA) /\ ev = "validateTrue"
  /\ pc = "idle" /\ i = 0 /\ processedOldIndices = {}
  /\ calls = <<>> /\ errs = <<>>

UnionInit ==
  /\ shared = [t \in {} |-> NoUnions] /\ ndirs = 0 /\ dlog = <<>>
  /\ emitted = <<>> /\ erun = [type |-> "", at |-> 0, ok |-> FALSE] /\ prev = NoRun
  /\ upc = "collect"
  /\ uobj = [Items |-> NilList, Ra |-> FALSE, Rb |-> FALSE, Disc |-> sOther, Ind |-> sOther]
  /\ uerrs = <<>>

\* a call of ListMapElementByKey with any inputs within the bounds
CallAny ==
  /\ pc = "idle"
  /\ \E r \in Revisions, nl \in ListsUpTo(PairItems, MaxLen),
        ol \in ListsUpTo(PairItems, MaxLen), sel \in PairSelectors, v \in Validators :
       Call(r, nl, ol, sel, v)

PairNext ==
  \/ CallAny
  \/ NewListStep
  \/ NewListDone
  \/ OldListStep
  \/ Return

\* a unionMember directive call on a field of the type or on a virtual member
UnionMemberAny ==
  /\ upc = "collect" /\ ndirs < MaxDirectives
  /\ \E d \in UnionDirectives : UnionMember(d)

\* a unionDiscriminator directive call on a field of the type
UnionDiscriminatorAny ==
  /\ upc = "collect" /\ ndirs < MaxDirectives
  /\ \E d \in UnionDirectives : UnionDiscriminator(d)

\* a validation of any object within the bounds
ValidateAny ==
  /\ upc = "emitted"
  /\ \E obj \in UnionObjects : Validate(obj)

UnionNext ==
  \/ UnionMemberAny
  \/ UnionDiscriminatorAny
  \/ Emit
  \/ ValidateAny

\* a unionMember directive call, whenever the generation run makes it
DirectiveMemberAny ==
  /\ ndirs < MaxCalls
  /\ \E d \in CompileDirectives : UnionMember(d)

\* a unionDiscriminator directive call, whenever the generation run makes it
DirectiveDiscriminatorAny ==
  /\ ndirs < MaxCalls
  /\ \E d \in CompileDirectives : UnionDiscriminator(d)

\* a unionTypeValidator.GetValidations call, whenever the run makes it
EmitAny ==
  \E structType \in Types, it \in IterationOrders : EmitType(structType, it)

CompileNext ==
  \/ DirectiveMemberAny
  \/ DirectiveDiscriminatorAny
  \/ EmitAny

\* no single function application under way
FnIdle == fpc = "idle" /\ fin = <<>> /\ fout = <<>>

\* the selectors handed to the selector compiler
CompileSelectors ==
  { (sType :> sA), (sStatus :> sT), (sStringPtr :> sA), (sStringPtr :> NoStr),
    (sType :> sA) @@ (sStatus :> sT), (sType :> sA) @@ (sStringPtr :> sB),
    (sType :> sA) @@ (sStatus :> sT) @@ (sStringPtr :> sA),
    (sNum :> sA), (sNumPtr :> sA), (sType :> sA) @@ (sNum :> sA),
    (sId :> sA), (sType :> sA) @@ (sId :> sA) }

\* the elements the compiled literal is run on
MatchItems ==
  {MkItem(t, st, p) : t \in {sA, sB}, st \in {sT, sF},
                      p \in {NilPtr, PtrTo(NoStr), PtrTo(sA), PtrTo(sB)}}

NoLiteral == [ok |-> FALSE, conditions |-> <<>>]

\* a selector, a compiler revision and an element pointer to try it on
SelectorInit ==
  /\ fpc = "ready"
  /\ fin \in {[crev |-> c, sel |-> sel, isNil |-> n, item |-> it] :
               c \in CompilerRevisions, sel \in CompileSelectors,
               n \in {FALSE}, it \in MatchItems}
            \cup {[crev |-> c, sel |-> sel, isNil |-> TRUE, item |-> ZeroItem] :
                    c \in CompilerRevisions, sel \in CompileSelectors}
  /\ fout = [lit |-> NoLiteral, result |-> FALSE]

\* the directive compiles its selector
CompileSelectorStep ==
  /\ fpc = "ready"
  /\ fout' = [lit |-> CompileSelector(fin.crev, fin.sel), result |-> FALSE]
  /\ fpc' = IF CompileSelector(fin.crev, fin.sel).ok THEN "compiled" ELSE "failed"
  /\ UNCHANGED <<fin, pairVars, unionVars>>

\* the generated code, where it builds, runs the literal on the element
EvaluateStep ==
  /\ fpc = "compiled" /\ WellTyped(fout.lit)
  /\ fout' = [fout EXCEPT !.result = EvalMatchFn(fout.lit, fin.isNil, fin.item)]
  /\ fpc' = "done"
  /\ UNCHANGED <<fin, pairVars, unionVars>>

SelectorNext ==
  \/ CompileSelectorStep
  \/ EvaluateStep

SelectorStart == PairInit /\ UnionInit /\ SelectorInit

\* the compilation of one selector and one run of its predicate
SpecSelector == SelectorStart /\ [][SelectorNext]_vars

\* the maps handed to GeneratePathForMap: every subset of three keys, every
\* value of PathValues
PathValues == {sA, sT, NoStr, sAquoteB, sAbackslashB}
PathMaps ==
  UNION {[K -> PathValues] : K \in SUBSET {sType, sStatus, sStringPtr}}

PathInit ==
  /\ fpc = "ready"
  /\ fin \in PathMaps
  /\ fout = <<>>

\* one call of GeneratePathForMap; the map iteration order is the runtime's
GeneratePathStep ==
  /\ fpc = "ready"
  /\ \E keys \in RangeOrders(fin) : fout' = GeneratePathForMapFrom(fin, keys)
  /\ fpc' = "done"
  /\ UNCHANGED <<fin, pairVars, unionVars>>

PathNext == GeneratePathStep

PathStart == PairInit /\ UnionInit /\ PathInit

\* one call of GeneratePathForMap
SpecPath == PathStart /\ [][PathNext]_vars

(***************************************************************************)
(* Subfield                                                                *)
(***************************************************************************)
\* a *Tstruct: nil, or a struct whose subfield holds a nilable value
NilStruct == [isNil |-> TRUE, f |-> NilPtr]
MkStruct(v) == [isNil |-> FALSE, f |-> v]

\* getField: the generated accessor of the subfield
getField(struct) == struct.f

\* the ValidateFunc handed to Subfield, called with a path and two values
SubfieldValidators == {"validateTrue", "validateFalse", "immutable", "twoErrors"}
ValidateFunc(v, path, newVal, oldVal) ==
  CASE v = "validateTrue" -> <<>>
    [] v = "validateFalse" -> <<[path |-> path, detail |-> "forced failure"]>>
    [] v = "immutable" ->
         IF newVal = oldVal THEN <<>>
         ELSE <<[path |-> path, detail |-> "field is immutable"]>>
    [] v = "twoErrors" ->
         << [path |-> path, detail |-> "first"], [path |-> path, detail |-> "second"] >>

MutSubfieldOldValAlwaysGet(oldStruct) ==
  [gets |-> <<"old">>, val |-> getField(oldStruct)]

\* var oldVal Tfield; if oldStruct != nil { oldVal = getField(oldStruct) }
SubfieldOldVal(oldStruct) ==
  IF oldStruct.isNil THEN [gets |-> <<>>, val |-> NilPtr]
  ELSE [gets |-> <<"old">>, val |-> getField(oldStruct)]

\* Subfield: the getField calls it makes, the validator call, what it returns
Subfield(path, newStruct, oldStruct, fldName, validator) ==
  LET newVal == getField(newStruct)
      old == SubfieldOldVal(oldStruct)
      childPath == PathChild(path, fldName)
  IN [gets |-> <<"new">> \o old.gets,
      vcalls |-> <<[path |-> childPath, newVal |-> newVal, oldVal |-> old.val]>>,
      errs |-> <<>> \o ValidateFunc(validator, childPath, newVal, old.val)]

SubfieldValues == {NilPtr, PtrTo(sA), PtrTo(sB)}

SubfieldInit ==
  /\ fpc = "ready"
  /\ fin \in [newStruct : {MkStruct(v) : v \in SubfieldValues},
               oldStruct : {NilStruct} \cup {MkStruct(v) : v \in SubfieldValues},
               fldName : {sType, sStatus},
               validator : SubfieldValidators]
  /\ fout = [gets |-> <<>>, vcalls |-> <<>>, errs |-> <<>>]

\* one call of Subfield
SubfieldStep ==
  /\ fpc = "ready"
  /\ fout' = Subfield(fldPath, fin.newStruct, fin.oldStruct, fin.fldName, fin.validator)
  /\ fpc' = "done"
  /\ UNCHANGED <<fin, pairVars, unionVars>>

SubfieldNext == SubfieldStep

SubfieldStart == PairInit /\ UnionInit /\ SubfieldInit

SpecSubfield == SubfieldStart /\ [][SubfieldNext]_vars

(***************************************************************************)
(* The subfield directive: its argument.                                   *)
(***************************************************************************)
\* JSON values: an object is the sequence of its (key, value) pairs as written
JNull == [kind |-> "null", s |-> NoStr, b |-> FALSE, pairs |-> <<>>]
JStr(s) == [kind |-> "string", s |-> s, b |-> FALSE, pairs |-> <<>>]
JBool(b) == [kind |-> "bool", s |-> NoStr, b |-> b, pairs |-> <<>>]
JNum == [kind |-> "number", s |-> <<"1">>, b |-> FALSE, pairs |-> <<>>]
JObj(pairs) == [kind |-> "object", s |-> NoStr, b |-> FALSE, pairs |-> pairs]

\* the text of a JSON value whose members are strings, literals or objects of
\* such (two levels are all the payload struct has below its top level)
JSONLeafText(v) ==
  CASE v.kind = "null" -> <<"n", "u", "l", "l">>
    [] v.kind = "string" -> SprintfQ(v.s)
    [] v.kind = "bool" -> IF v.b THEN <<"t", "r", "u", "e">> ELSE <<"f", "a", "l", "s", "e">>
    [] v.kind = "number" -> v.s
    [] OTHER -> <<"{", "}">>

RECURSIVE JSONJoin(_, _)
\* "key":text of the pairs from the n-th on, separated by commas
JSONJoin(members, n) ==
  IF n > Len(members) THEN <<>>
  ELSE (IF n > 1 THEN <<",">> ELSE <<>>)
       \o SprintfQ(members[n][1]) \o <<":">> \o members[n][2]
       \o JSONJoin(members, n + 1)

JSONInnerText(v) ==
  IF v.kind = "object"
  THEN <<"{">>
       \o JSONJoin([n \in 1..Len(v.pairs) |->
                      <<v.pairs[n][1], JSONLeafText(v.pairs[n][2])>>], 1)
       \o <<"}">>
  ELSE JSONLeafText(v)

JSONMemberText(v) ==
  IF v.kind = "object"
  THEN <<"{">>
       \o JSONJoin([n \in 1..Len(v.pairs) |->
                      <<v.pairs[n][1], JSONInnerText(v.pairs[n][2])>>], 1)
       \o <<"}">>
  ELSE JSONLeafText(v)

JSONText(v) ==
  IF v.kind = "object"
  THEN <<"{">>
       \o JSONJoin([n \in 1..Len(v.pairs) |->
                      <<v.pairs[n][1], JSONMemberText(v.pairs[n][2])>>], 1)
       \o <<"}">>
  ELSE JSONLeafText(v)

\* a directive argument: its text and, where the text is JSON, the value
JSONArg(v) == [argStr |-> JSONText(v), valid |-> TRUE, doc |-> v]
RawArg(text) == [argStr |-> text, valid |-> FALSE, doc |-> JNull]

\* the keys of subfieldArgumentPayload
sListElems == <<"l", "i", "s", "t", "E", "l", "e", "m", "s">>
sFlags == <<"f", "l", "a", "g", "s">>
sShortCircuit == <<"S", "h", "o", "r", "t", "C", "i", "r", "c", "u", "i", "t">>
sNonError == <<"N", "o", "n", "E", "r", "r", "o", "r">>

\* the member of an object a struct field is decoded from: the last pair with
\* the field's key, null when there is none
JSONMember(v, key) ==
  LET hits == {n \in 1..Len(v.pairs) : v.pairs[n][1] = key}
  IN IF hits = {} THEN JNull
     ELSE v.pairs[CHOOSE n \in hits : \A m \in hits : m <= n][2]

\* a *bool field: nil, or a pointer to the value
NilBool == [set |-> FALSE, val |-> FALSE]
DecodeBoolPtr(v) ==
  CASE v.kind = "null" -> [err |-> FALSE, ptr |-> NilBool]
    [] v.kind = "bool" -> [err |-> FALSE, ptr |-> [set |-> TRUE, val |-> v.b]]
    [] OTHER -> [err |-> TRUE, ptr |-> NilBool]

\* a map[string]string field: a null leaves it nil, an object of strings fills
\* it (a later pair overwrites an earlier one, a null member is the zero string)
DecodeStringMap(v) ==
  CASE v.kind = "null" -> [err |-> FALSE, map |-> <<>>]
    [] v.kind = "object" ->
         IF \E n \in 1..Len(v.pairs) : v.pairs[n][2].kind \notin {"string", "null"}
         THEN [err |-> TRUE, map |-> <<>>]
         ELSE [err |-> FALSE,
               map |-> [k \in {v.pairs[n][1] : n \in 1..Len(v.pairs)} |->
                          JSONMember(v, k).s]]
    [] OTHER -> [err |-> TRUE, map |-> <<>>]

NoFlags == [set |-> FALSE, ShortCircuit |-> NilBool, NonError |-> NilBool]
DecodeFlags(v) ==
  CASE v.kind = "null" -> [err |-> FALSE, flags |-> NoFlags]
    [] v.kind = "object" ->
         LET sc == DecodeBoolPtr(JSONMember(v, sShortCircuit))
             ne == DecodeBoolPtr(JSONMember(v, sNonError))
         IN [err |-> sc.err \/ ne.err,
             flags |-> [set |-> TRUE, ShortCircuit |-> sc.ptr, NonError |-> ne.ptr]]
    [] OTHER -> [err |-> TRUE, flags |-> NoFlags]

\* json.Unmarshal([]byte(argStr), &sap): text that is not JSON, or a value
\* whose shape does not fit the payload struct, is an error; members the
\* struct does not name are ignored
Unmarshal(arg) ==
  LET zero == [ListElems |-> <<>>, Flags |-> NoFlags]
  IN IF ~arg.valid THEN [err |-> TRUE, sap |-> zero]
     ELSE CASE arg.doc.kind = "null" -> [err |-> FALSE, sap |-> zero]
            [] arg.doc.kind = "object" ->
                 LET le == DecodeStringMap(JSONMember(arg.doc, sListElems))
                     fl == DecodeFlags(JSONMember(arg.doc, sFlags))
                 IN [err |-> le.err \/ fl.err,
                     sap |-> [ListElems |-> le.map, Flags |-> fl.flags]]
            [] OTHER -> [err |-> TRUE, sap |-> zero]

NoParsedArg ==
  [err |-> "", ListElems |-> <<>>, ShortCircuit |-> FALSE, NonError |-> FALSE,
   SubName |-> NoStr]

\* parseSubfieldArg
parseSubfieldArg(arg) ==
  LET u == Unmarshal(arg)
  IN IF ~u.err
     THEN IF DOMAIN u.sap.ListElems = {}
          THEN [NoParsedArg EXCEPT !.err = "'listElems' map cannot be empty"]
          ELSE [NoParsedArg EXCEPT
                  !.ListElems = u.sap.ListElems,
                  !.ShortCircuit = u.sap.Flags.set /\ u.sap.Flags.ShortCircuit.set
                                   /\ u.sap.Flags.ShortCircuit.val,
                  !.NonError = u.sap.Flags.set /\ u.sap.Flags.NonError.set
                               /\ u.sap.Flags.NonError.val]
     ELSE IF arg.argStr = NoStr
          THEN [NoParsedArg EXCEPT !.err = "arg cannot be an empty string"]
          ELSE [NoParsedArg EXCEPT !.SubName = arg.argStr]

(***************************************************************************)
(* The subfield directive: subfieldTagValidator.GetValidations.            *)
(***************************************************************************)
\* strings.TrimSpace
TrimSpace(s) ==
  LET idx == {n \in 1..Len(s) : s[n] # " "}
  IN IF idx = {} THEN <<>>
     ELSE SubSeq(s, CHOOSE n \in idx : \A m \in idx : n <= m,
                    CHOOSE n \in idx : \A m \in idx : m <= n)

sListTypeMap == <<"+", "l", "i", "s", "t", "T", "y", "p", "e", "=", "m", "a", "p">>
sListMapKeyPrefix == <<"+", "l", "i", "s", "t", "M", "a", "p", "K", "e", "y", "=">>

\* the non-empty trimmed keys of the parts of one +listMapKey line
ListMapKeysOfLine(line) ==
  LET parsedKeys == Split(TrimPrefix(TrimSpace(line), sListMapKeyPrefix), <<",">>)
  IN SelectSeq([n \in 1..Len(parsedKeys) |-> TrimSpace(parsedKeys[n])],
               LAMBDA k : k # <<>>)

RECURSIVE ListMapKeysOfLines(_)
ListMapKeysOfLines(commentLines) ==
  IF commentLines = <<>> THEN <<>>
  ELSE (IF HasPrefix(TrimSpace(Head(commentLines)), sListMapKeyPrefix)
        THEN ListMapKeysOfLine(Head(commentLines)) ELSE <<>>)
       \o ListMapKeysOfLines(Tail(commentLines))

\* parseListMapKeys: the sorted keys when the lines hold +listType=map and
\* at least one key, nil otherwise
parseListMapKeys(commentLines) ==
  LET hasListTypeMap ==
        \E n \in 1..Len(commentLines) : TrimSpace(commentLines[n]) = sListTypeMap
      keys == ListMapKeysOfLines(commentLines)
  IN IF hasListTypeMap /\ keys # <<>> THEN SortSlice(keys) ELSE <<>>

\* context.Type after nonPointer(nativeType(...)): its kind, its element kind
TypeOf(kind, elem) == [Kind |-> kind, Elem |-> elem]
\* context.Member: nil, or the member with its comment lines
NilMember == [isNil |-> TRUE, Name |-> NoStr, CommentLines |-> <<>>]
MemberOf(name, commentLines) ==
  [isNil |-> FALSE, Name |-> name, CommentLines |-> commentLines]

\* return Validations{}, fmt.Errorf(...)
Failed(msg) == [err |-> msg, Functions |-> <<>>, Variables |-> <<>>]

DefaultFlags == {}

MutListMapCallFlagsKeepNonError(parsedArg) ==
  (IF parsedArg.ShortCircuit THEN {"ShortCircuit"} ELSE {})
  \cup (IF parsedArg.NonError THEN {"NonError"} ELSE {})

\* listMapCallFlags: the flags asked for, NonError cleared without ShortCircuit
ListMapCallFlags(parsedArg) ==
  LET asked == DefaultFlags
               \cup (IF parsedArg.ShortCircuit THEN {"ShortCircuit"} ELSE {})
               \cup (IF parsedArg.NonError THEN {"NonError"} ELSE {})
  IN IF "NonError" \in asked /\ "ShortCircuit" \notin asked
     THEN asked \ {"NonError"} ELSE asked

MutListAccessErrorNoElemCheck(crev, context, parsedArg) ==
  LET listElems == parsedArg.ListElems
      unknownKey == \E k \in DOMAIN listElems : getMemberByJSON(k) = 0
  IN IF context.Type.Kind \notin {"Slice", "Array"}
     THEN "can only be used on list types"
     ELSE IF unknownKey THEN "element type has no field with JSON name"
     ELSE ""

\* the list branch up to the call of ExtractValidations: its first error, ""
\* when it gets there
ListAccessError(crev, context, parsedArg) ==
  LET listElems == parsedArg.ListElems
      declaredKeys == parseListMapKeys(context.Member.CommentLines)
      unknownKey == \E k \in DOMAIN listElems : getMemberByJSON(k) = 0
  IN IF context.Type.Kind \notin {"Slice", "Array"}
     THEN "can only be used on list types"
     ELSE IF context.Type.Elem # "Struct"
     THEN "can only be used on list of structs"
     ELSE CASE crev = "createMatchFn" ->
                 IF context.Member.isNil THEN "unexpected nil context member"
                 ELSE IF declaredKeys = <<>>
                 THEN "must have '+listType=map' and '+listMapKey=...' annotations"
                 ELSE IF \E n \in 1..Len(declaredKeys) : declaredKeys[n] \notin DOMAIN listElems
                 THEN "subfield listElems must contain all listMap keys"
                 ELSE IF unknownKey THEN "element type has no field with JSON name"
                 ELSE ""
            [] crev = "inline" ->
                 IF unknownKey THEN "element type has no field with JSON name" ELSE ""
            [] crev = "createMatchFnLiteral" ->
                 IF unknownKey THEN "element type has no field with JSON name"
                 ELSE IF context.Parent = "nil" \/ context.Member.isNil
                 THEN "lacks necessary original parent/member context"
                 ELSE ""

\* the list branch from the result of ExtractValidations on
ListAccessFunctions(crev, parsedArg, extracted) ==
  LET matchFn == CompileSelector(crev, parsedArg.ListElems)
  IN IF extracted.err THEN Failed("failed to extract chained validations")
     ELSE IF ~matchFn.ok THEN Failed("no field with JSON name")
     ELSE [err |-> "",
           Functions |->
             [n \in 1..Len(extracted.Functions) |->
                [tag |-> "k8s:subfield", flags |-> ListMapCallFlags(parsedArg),
                 fn |-> "ListMapElementByKey", selector |-> parsedArg.ListElems,
                 subname |-> NoStr, matchFn |-> matchFn,
                 wrapped |-> extracted.Functions[n]]],
           Variables |-> extracted.Variables]

\* the +k8s:subfield(subname) branch
SubNameFunctions(context, configStr, extracted) ==
  IF context.Type.Kind # "Struct" THEN Failed("can only be used on struct types")
  ELSE IF getMemberByJSON(configStr) = 0 THEN Failed("no field for json name")
  ELSE IF extracted.err THEN Failed("payload")
  ELSE IF extracted.Variables # <<>> THEN Failed("variable generation is not supported")
  ELSE [err |-> "",
        Functions |->
          [n \in 1..Len(extracted.Functions) |->
             [tag |-> "k8s:subfield", flags |-> extracted.Functions[n].flags,
              fn |-> "Subfield", selector |-> NoSel,
              subname |-> configStr, matchFn |-> NoLiteral,
              wrapped |-> extracted.Functions[n]]],
        Variables |-> <<>>]

\* subfieldTagValidator.GetValidations of a compiler revision; extracted is
\* what ExtractValidations returns for the payload when it is called
GetValidations(crev, context, args, extracted) ==
  IF Len(args) # 1 THEN Failed("requires exactly one arg")
  ELSE LET parsedArg == parseSubfieldArg(args[1])
       IN IF parsedArg.err # "" THEN Failed(parsedArg.err)
          ELSE IF parsedArg.SubName # NoStr
          THEN SubNameFunctions(context, args[1].argStr, extracted)
          ELSE IF ListAccessError(crev, context, parsedArg) # ""
          THEN Failed(ListAccessError(crev, context, parsedArg))
          ELSE ListAccessFunctions(crev, parsedArg, extracted)

\* the comment lines of the tagged list field
CommentLineSets ==
  { <<>>,
    <<sListTypeMap>>,
    <<<<"+", "l", "i", "s", "t", "M", "a", "p", "K", "e", "y", "=", "t", "y", "p", "e">>>>,
    <<sListTypeMap, <<"+", "l", "i", "s", "t", "M", "a", "p", "K", "e", "y", "=", "t", "y", "p", "e">>>>,
    <<sListTypeMap, <<"+", "l", "i", "s", "t", "M", "a", "p", "K", "e", "y", "=", "t", "y", "p", "e">>, <<"+", "l", "i", "s", "t", "M", "a", "p", "K", "e", "y", "=", "s", "t", "a", "t", "u", "s">>>>,
    <<<<" ", "+", "l", "i", "s", "t", "T", "y", "p", "e", "=", "m", "a", "p", " ">>, <<"+", "l", "i", "s", "t", "M", "a", "p", "K", "e", "y", "=", " ", "s", "t", "a", "t", "u", "s", " ", ",", " ", "t", "y", "p", "e", ",">>>>,
    <<<<"+", "l", "i", "s", "t", "T", "y", "p", "e", "=", "a", "t", "o", "m", "i", "c">>, <<"+", "l", "i", "s", "t", "M", "a", "p", "K", "e", "y", "=", "t", "y", "p", "e">>>> }

\* the contexts the directive is compiled in
DirectiveContexts ==
  {[Type |-> t, Parent |-> p, Member |-> m] :
     t \in {TypeOf("Slice", "Struct"), TypeOf("Array", "Struct"),
            TypeOf("Slice", "Builtin"), TypeOf("Struct", "none"),
            TypeOf("Builtin", "none")},
     p \in {"nil", "Struct"},
     m \in {NilMember} \cup {MemberOf(sItems, l) : l \in CommentLineSets}}

\* {"listElems": {...}} with the selector written in ascending key order
ListElemsObj(sel) ==
  LET keys == SortStrings(DOMAIN sel)
  IN JObj([n \in 1..Len(keys) |-> <<keys[n], JStr(sel[keys[n]])>>])

FlagValues == {JNull, JBool(TRUE), JBool(FALSE)}

\* the arguments of the directive
DirectiveArgs ==
  { RawArg(NoStr), RawArg(sType), RawArg(sId), RawArg(<<"{">>),
    JSONArg(JNull), JSONArg(JStr(sType)), JSONArg(JObj(<<>>)),
    JSONArg(JObj(<< <<sType, JStr(sA)>> >>)),
    JSONArg(JObj(<< <<sStatus, JStr(sT)>>, <<sType, JStr(sA)>> >>)),
    JSONArg(JObj(<< <<sListElems, JObj(<<>>)>> >>)),
    JSONArg(JObj(<< <<sListElems, JObj(<< <<sType, JNum>> >>)>> >>)),
    JSONArg(JObj(<< <<sListElems, ListElemsObj(sType :> sA)>>, <<sFlags, JNull>> >>)),
    JSONArg(JObj(<< <<sListElems, ListElemsObj(sType :> sA)>>, <<sFlags, JObj(<<>>)>> >>)) }
  \cup {JSONArg(JObj(<< <<sListElems, ListElemsObj(sel)>> >>)) :
          sel \in {(sType :> sA), (sStatus :> sT), (sId :> sA), (NoStr :> sA),
                   (sType :> sA) @@ (sStatus :> sT),
                   (sType :> sA) @@ (sStringPtr :> sB),
                   (sType :> sA) @@ (sId :> sA)}}
  \cup {JSONArg(JObj(<< <<sListElems, ListElemsObj(sType :> sA)>>,
                        <<sFlags, JObj(<< <<sShortCircuit, sc>>, <<sNonError, ne>> >>)>> >>)) :
          sc \in FlagValues, ne \in FlagValues}

\* a nested validation function: its name and its own flags
NestedFunction(name, flags) == [name |-> name, flags |-> flags]

\* what ExtractValidations returns for the payload
ExtractedResults ==
  { [err |-> TRUE, Functions |-> <<>>, Variables |-> <<>>],
    [err |-> FALSE, Functions |-> <<>>, Variables |-> <<>>],
    [err |-> FALSE, Functions |-> <<NestedFunction("validateFalse", {})>>,
     Variables |-> <<>>],
    [err |-> FALSE,
     Functions |-> <<NestedFunction("validateFalse", {"ShortCircuit"}),
                     NestedFunction("immutable", {})>>,
     Variables |-> <<>>],
    [err |-> FALSE,
     Functions |-> <<NestedFunction("immutable", {"NonError"}),
                     NestedFunction("validateFalse", {})>>,
     Variables |-> <<"v">>] }

DirectiveInit ==
  /\ fpc = "ready"
  /\ fin \in {[crev |-> c, context |-> ctx, args |-> a, extracted |-> x] :
               c \in CompilerRevisions, ctx \in DirectiveContexts,
               a \in {<<>>} \cup {<<arg>> : arg \in DirectiveArgs}
                    \cup {<<RawArg(sType), RawArg(sStatus)>>},
               x \in ExtractedResults}
  /\ fout = [parsed |-> NoParsedArg, result |-> Failed("")]

\* one call of subfieldTagValidator.GetValidations
GetValidationsStep ==
  /\ fpc = "ready"
  /\ fout' = [parsed |-> IF Len(fin.args) = 1 THEN parseSubfieldArg(fin.args[1])
                         ELSE NoParsedArg,
              result |-> GetValidations(fin.crev, fin.context, fin.args, fin.extracted)]
  /\ fpc' = "done"
  /\ UNCHANGED <<fin, pairVars, unionVars>>

DirectiveNext == GetValidationsStep

DirectiveStart == PairInit /\ UnionInit /\ DirectiveInit

\* the compilation of one subfield directive
SpecDirective == DirectiveStart /\ [][DirectiveNext]_vars

(***************************************************************************)
(* The presence test of a virtual union member, next to the match function *)
(* compiled for the same selector; the virtual member name.                *)
(***************************************************************************)
\* the conditions of the getter literal of a virtual member: for each key of
\* the selector parsed from the name, listItem.<Field> == "<value>"
GetterLiteral(g) ==
  LET keys == SortStrings(DOMAIN g.sel)
  IN [ok |-> \A n \in 1..Len(keys) : getFieldNameFromJSONKey(keys[n]) # 0,
      conditions |->
        [n \in 1..Len(keys) |->
           [ok |-> TRUE,
            field |-> ElemMembers[getFieldNameFromJSONKey(keys[n])].name,
            deref |-> FALSE, expected |-> g.sel[keys[n]]]]]

\* the selectors of list directives that carry a unionMember, and the
\* elements their tests are run on
PresenceSelectors ==
  { (sType :> sA), (sStatus :> sT), (sType :> sA) @@ (sStatus :> sT),
    (sStringPtr :> sA), (sType :> sA) @@ (sStringPtr :> sB),
    (sType :> sB) @@ (sStatus :> sF), (sStatus :> sF) }

PresenceInit ==
  /\ fpc = "ready"
  /\ fin \in [sel : PresenceSelectors, item : MatchItems]
  /\ fout = [matchFn |-> NoLiteral, getter |-> NoLiteral]

\* the list directive compiles its match function and registers the virtual
\* member; the type validator emits the member's getter
PresenceStep ==
  /\ fpc = "ready"
  /\ LET m == MemberGetter(VirtualMember(sItems, fin.sel))
     IN fout' = [matchFn |-> CompileSelector("createMatchFnLiteral", fin.sel),
                 getter |-> IF m.ok THEN GetterLiteral(m.getter) ELSE NoLiteral]
  /\ fpc' = "done"
  /\ UNCHANGED <<fin, pairVars, unionVars>>

PresenceNext == PresenceStep

PresenceStart == PairInit /\ UnionInit /\ PresenceInit

\* one selector compiled both ways
SpecPresence == PresenceStart /\ [][PresenceNext]_vars

\* Go names of list fields, and selector values
NamingLists == {sItems, <<"I", "t", "_", "a">>}
NamingValues == {sA, sT, sAcolonB, <<"a", "_", "b">>, sAquoteB}
NamingSelectors ==
  UNION {[K -> NamingValues] : K \in (SUBSET {sType, sStatus}) \ {{}}}

NamingInit ==
  /\ fpc = "ready"
  /\ fin \in [list : NamingLists, sel : NamingSelectors]
  /\ fout = [name |-> NoStr,
             meta |-> [ok |-> FALSE, listFieldName |-> NoStr, selectorMap |-> NoSel]]

\* the directive builds the name, the type validator parses it
NamingStep ==
  /\ fpc = "ready"
  /\ fout' = [name |-> VirtualMemberName(fin.list, fin.sel),
              meta |-> parseVirtualMemberMetadata(VirtualMemberName(fin.list, fin.sel))]
  /\ fpc' = "done"
  /\ UNCHANGED <<fin, pairVars, unionVars>>

NamingNext == NamingStep

NamingStart == PairInit /\ UnionInit /\ NamingInit

\* one virtual member name built and parsed back
SpecNaming == NamingStart /\ [][NamingNext]_vars

\* one call of ListMapElementByKey
Init == PairInit /\ UnionInit /\ FnIdle
Next == PairNext
Spec == Init /\ [][Next]_vars

\* the union directives of one type, their emission, one validation
SpecUnion == Init /\ [][UnionNext]_vars

\* the union validators called in any order over two types
SpecCompile == Init /\ [][CompileNext]_vars

(***************************************************************************)
(* Directive calls with their error returns.                               *)
(***************************************************************************)
\* the payload of a union directive: JSON naming the union, or malformed text
UnionPayloads ==
  { [valid |-> TRUE, union |-> NoStr], [valid |-> TRUE, union |-> sUnionB],
    [valid |-> FALSE, union |-> NoStr] }

\* the context of a union tag validator call: context.Parent ("nil", a struct
\* type, or a type that is not a struct), context.Member (NoMember for nil)
UnionContext(parent, member, payload) ==
  [parent |-> parent, member |-> member, payload |-> payload]

\* the error unionDiscriminatorTagValidator.GetValidations returns before it
\* touches the accumulator, "" when it returns none
UnionDiscriminatorError(c) ==
  IF c.member = NoMember THEN "context.Member is nil"
  ELSE IF c.member.kind # "string" THEN "can only be used on string types"
  ELSE IF ~c.payload.valid THEN "error parsing JSON value"
  ELSE IF c.parent = "nil" THEN "context.Parent is nil"
  ELSE IF c.parent \notin Types THEN "context.Parent is not a struct type"
  ELSE ""

\* the same of unionMemberTagValidator.GetValidations
UnionMemberError(c) ==
  IF c.member = NoMember THEN "context.Member is nil"
  ELSE IF ~c.payload.valid THEN "error parsing JSON value"
  ELSE IF c.parent = "nil" THEN "context.Parent is nil"
  ELSE IF c.parent \notin Types THEN "context.Parent is not a struct type"
  ELSE ""

\* unionDiscriminatorTagValidator.GetValidations, whatever it returns
UnionDiscriminatorCall(c) ==
  LET err == UnionDiscriminatorError(c)
      d == Directive("discriminator", c.parent, c.payload.union, c.member)
  IN /\ shared' = IF err = "" THEN DiscriminatorSet(shared, d) ELSE shared
     /\ dlog' = IF err = "" THEN Append(dlog, d) ELSE dlog
     /\ ndirs' = ndirs + 1
     /\ fin' = [validator |-> "unionDiscriminator", context |-> c]
     /\ fout' = [err |-> err, before |-> shared]
     /\ fpc' = "called"
     /\ UNCHANGED <<emitted, erun, prev, upc, uobj, uerrs>>
     /\ UNCHANGED pairVars

\* unionMemberTagValidator.GetValidations, whatever it returns
UnionMemberCall(c) ==
  LET err == UnionMemberError(c)
      d == Directive("member", c.parent, c.payload.union, c.member)
  IN /\ shared' = IF err = "" THEN MemberAppended(shared, d) ELSE shared
     /\ dlog' = IF err = "" THEN Append(dlog, d) ELSE dlog
     /\ ndirs' = ndirs + 1
     /\ fin' = [validator |-> "unionMember", context |-> c]
     /\ fout' = [err |-> err, before |-> shared]
     /\ fpc' = "called"
     /\ UNCHANGED <<emitted, erun, prev, upc, uobj, uerrs>>
     /\ UNCHANGED pairVars

\* the context a revision hands to the payload of a list directive: the
\* first two pass neither parent nor member, the third the parent and the
\* virtual member
SubContextForPayload(crev, context, parsedArg, payload) ==
  IF crev = "createMatchFnLiteral"
  THEN UnionContext(context.Parent,
                    VirtualMember(context.Member.Name, parsedArg.ListElems), payload)
  ELSE UnionContext("nil", NoMember, payload)

\* subfieldTagValidator.GetValidations of a list directive whose payload is
\* +k8s:unionMember: ExtractValidations runs the unionMember validator, then
\* the match function is compiled
SubfieldUnionMemberCall(crev, context, arg, payload) ==
  LET parsedArg == parseSubfieldArg(arg)
      reaches == /\ parsedArg.err = ""
                 /\ ListAccessError(crev, context, parsedArg) = ""
      c == SubContextForPayload(crev, context, parsedArg, payload)
      d == Directive("member", c.parent, payload.union, c.member)
      registered == reaches /\ UnionMemberError(c) = ""
      extracted == [err |-> ~registered, Functions |-> <<>>, Variables |-> <<>>]
  IN /\ parsedArg.SubName = NoStr
     /\ shared' = IF registered THEN MemberAppended(shared, d) ELSE shared
     /\ dlog' = IF registered THEN Append(dlog, d) ELSE dlog
     /\ ndirs' = ndirs + 1
     /\ fin' = [validator |-> "subfield", crev |-> crev, context |-> context,
                arg |-> arg, payload |-> payload]
     /\ fout' = [err |-> GetValidations(crev, context, <<arg>>, extracted).err,
                 before |-> shared]
     /\ fpc' = "called"
     /\ UNCHANGED <<emitted, erun, prev, upc, uobj, uerrs>>
     /\ UNCHANGED pairVars

\* the contexts of the union tag validator calls
UnionCallParents == {"nil", "Struct", "NotStruct"}
UnionCallContexts ==
  {UnionContext(p, m, pl) :
     p \in UnionCallParents, m \in {NoMember, RealMember(2), RealMember(4)},
     pl \in UnionPayloads}

\* the contexts and arguments of the list directives with a unionMember
ListDirectiveContexts ==
  {[Type |-> t, Parent |-> p, Member |-> m] :
     t \in {TypeOf("Slice", "Struct"), TypeOf("Slice", "Builtin")},
     p \in {"nil", "Struct"},
     m \in {NilMember, MemberOf(sItems, <<sListTypeMap, sListMapKeyPrefix \o sType>>)}}
ListDirectiveArgs ==
  {RawArg(NoStr)}
  \cup {JSONArg(JObj(<< <<sListElems, ListElemsObj(sel)>> >>)) :
          sel \in {(sType :> sA), (sId :> sA), (NoStr :> sA)}}

UnionDiscriminatorCallAny ==
  /\ ndirs < MaxCalls
  /\ \E c \in UnionCallContexts : UnionDiscriminatorCall(c)

UnionMemberCallAny ==
  /\ ndirs < MaxCalls
  /\ \E c \in UnionCallContexts : UnionMemberCall(c)

SubfieldUnionMemberCallAny ==
  /\ ndirs < MaxCalls
  /\ \E crev \in CompilerRevisions, context \in ListDirectiveContexts,
        arg \in ListDirectiveArgs, payload \in UnionPayloads :
       SubfieldUnionMemberCall(crev, context, arg, payload)

CallsNext ==
  \/ UnionDiscriminatorCallAny
  \/ UnionMemberCallAny
  \/ SubfieldUnionMemberCallAny

\* directive calls of a generation run, failing ones included
SpecCalls == Init /\ [][CallsNext]_vars

(***************************************************************************)
(* Vocabulary of the properties of ListMapElementByKey.                    *)
(***************************************************************************)
\* the selector's constraint on an element, as the specification words it
Satisfies(item) ==
  \A k \in DOMAIN selector :
    IF k = sType THEN item.Type = selector[k]
    ELSE IF k = sStatus THEN item.Status = selector[k]
    ELSE item.StringPtr.set /\ item.StringPtr.val = selector[k]

\* indices (from 0) of the elements of a list that satisfy the selector
MatchingIdx(list) == {n \in 0..(Len(list.items) - 1) : Satisfies(list.items[n + 1])}

\* index of the k-th satisfying element (k from 1), -1 when there are fewer
NthMatching(list, k) ==
  LET c == MatchingIdx(list)
  IN IF Cardinality(c) < k THEN -1
     ELSE CHOOSE n \in c : Cardinality({m \in c : m <= n}) = k

\* how many elements of newList the first loop has gone through
NewDone == IF pc = "new" THEN i ELSE IF pc = "idle" THEN 0 ELSE Len(newList.items)

IsNewCall(c) == c.newIdx >= 0
NewCalls == SelectSeq(calls, IsNewCall)
IsOldOnlyCall(c) == c.newIdx < 0
OldOnlyCalls == SelectSeq(calls, IsOldOnlyCall)
PairedOld == {calls[n].oldIdx : n \in {m \in 1..Len(calls) : calls[m].newIdx >= 0}} \ {-1}

Max(a, b) == IF a >= b THEN a ELSE b

\* C1: greedy multi-match pairing. The invocations with a non-nil new element
\* are, in order, one per satisfying element of newList gone through so far;
\* the k-th of them carries the k-th satisfying element of newList and the
\* k-th satisfying element of oldList (nil when oldList has fewer than k),
\* an element the earlier invocations of the call did not pair.
C1_GreedyPairing ==
  /\ Len(NewCalls) = Cardinality({n \in MatchingIdx(newList) : n < NewDone})
  /\ \A k \in 1..Len(NewCalls) :
       /\ NewCalls[k].newIdx = NthMatching(newList, k)
       /\ NewCalls[k].oldIdx = NthMatching(oldList, k)
       /\ NewCalls[k].newObj = newList.items[NewCalls[k].newIdx + 1]
       /\ NewCalls[k].oldIdx >= 0 =>
            /\ NewCalls[k].oldObj = oldList.items[NewCalls[k].oldIdx + 1]
            /\ \A m \in 1..(k - 1) : NewCalls[m].oldIdx # NewCalls[k].oldIdx

\* C1 witness: a finished call whose second pairing skipped a non-matching
\* old element and whose third matching new element found no old one left
C1_Witness ==
  /\ pc = "done" /\ Len(calls) = 3
  /\ calls[1].newIdx = 0 /\ calls[1].oldIdx = 0
  /\ calls[2].newIdx = 1 /\ calls[2].oldIdx = 2
  /\ calls[3].newIdx = 2 /\ calls[3].oldIdx = -1

\* C2: no old-only invocation happens while newList is being gone through,
\* none is followed by an invocation with a new element, and when the call
\* returns the old-only invocations are, in ascending index order, exactly
\* the satisfying elements of oldList that no new element was paired with.
C2_OldOnlyAfterNew ==
  /\ pc = "new" => OldOnlyCalls = <<>>
  /\ \A a, b \in 1..Len(calls) :
       (a < b /\ calls[a].newIdx < 0) => calls[b].newIdx < 0
  /\ \A a, b \in 1..Len(OldOnlyCalls) :
       a < b => OldOnlyCalls[a].oldIdx < OldOnlyCalls[b].oldIdx
  /\ pc = "done" =>
       /\ {OldOnlyCalls[n].oldIdx : n \in 1..Len(OldOnlyCalls)}
            = MatchingIdx(oldList) \ PairedOld
       /\ \A n \in 1..Len(OldOnlyCalls) :
            OldOnlyCalls[n].oldObj = oldList.items[OldOnlyCalls[n].oldIdx + 1]

\* C2 witness: a finished call with a paired invocation followed by two
\* old-only ones
C2_Witness ==
  /\ pc = "done" /\ Len(calls) = 3
  /\ calls[1].newIdx >= 0 /\ calls[1].oldIdx >= 0
  /\ calls[2].newIdx < 0 /\ calls[3].newIdx < 0

\* the case C3 is about: the per-index runtime called for a directive whose
\* selector holds every declared list-map key
UniqueKeyMode == rev = "perIndex" /\ ContainsAllListMapKeys(selector)

\* C3 as stated: in unique-key mode a finished call made exactly one
\* invocation, with the first satisfying element of each list, when some
\* element satisfies the selector, and none otherwise.
C3_SingleMatchAsStated ==
  (pc = "done" /\ UniqueKeyMode) =>
    IF MatchingIdx(newList) = {} /\ MatchingIdx(oldList) = {}
    THEN calls = <<>> /\ errs = <<>>
    ELSE /\ Len(calls) = 1
         /\ calls[1].newIdx = NthMatching(newList, 1)
         /\ calls[1].oldIdx = NthMatching(oldList, 1)

\* C3 amended: in unique-key mode a finished call made one invocation per
\* greedy pair, max(#satisfying new, #satisfying old) in all; the first one
\* carries the first satisfying element of each list (nil for a side with
\* none); so it made exactly one when neither list holds two satisfying
\* elements and one of them holds one, and none (and no error) when no
\* element satisfies the selector.
C3_OnePerGreedyPair ==
  (pc = "done" /\ UniqueKeyMode) =>
    LET nn == Cardinality(MatchingIdx(newList))
        no == Cardinality(MatchingIdx(oldList))
    IN /\ Len(calls) = Max(nn, no)
       /\ Len(calls) >= 1 =>
            /\ calls[1].newIdx = NthMatching(newList, 1)
            /\ calls[1].oldIdx = NthMatching(oldList, 1)
       /\ (nn <= 1 /\ no <= 1 /\ nn + no >= 1) => Len(calls) = 1
       /\ (nn = 0 /\ no = 0) => (calls = <<>> /\ errs = <<>>)

\* C3 witness: unique-key mode, one satisfying element in each list at
\* different indices, one invocation pairing them
C3_Witness ==
  /\ pc = "done" /\ UniqueKeyMode
  /\ Cardinality(MatchingIdx(newList)) = 1 /\ Cardinality(MatchingIdx(oldList)) = 1
  /\ Len(calls) = 1 /\ calls[1].newIdx = 1 /\ calls[1].oldIdx = 2

\* the canonical selector path of each selector of the model, written out
CanonicalSelectorPath ==
  IF selector = (sType :> sA)
  THEN <<"t", "y", "p", "e", "=", "\"", "A", "\"">>
  ELSE IF selector = (sStatus :> sT)
  THEN <<"s", "t", "a", "t", "u", "s", "=", "\"", "T", "\"">>
  ELSE <<"s", "t", "a", "t", "u", "s", "=", "\"", "T", "\"", ",",
         "t", "y", "p", "e", "=", "\"", "A", "\"">>

GroupedPath ==
  <<[kind |-> "child", name |-> <<"c">>, index |-> 0],
    [kind |-> "key", name |-> CanonicalSelectorPath, index |-> 0]>>

\* C8: in the grouped revisions every invocation (paired, new-only or
\* old-only) and every error of the call carries the one path
\* fldPath.Key(canonical selector path), whatever the indices of the elements.
C8_GroupedPath ==
  rev \in {"grouped", "reflect"} =>
    /\ \A n \in 1..Len(calls) : calls[n].path = GroupedPath
    /\ \A n \in 1..Len(errs) : errs[n].path = GroupedPath

\* C8 witness: a grouped call of an always-failing validator that paired
\* new[2] with old[0], then made an old-only invocation for old[1]
C8_Witness ==
  /\ pc = "done" /\ rev = "grouped" /\ ev = "validateFalse"
  /\ Len(errs) = 2 /\ Len(calls) = 2
  /\ calls[1].newIdx = 2 /\ calls[1].oldIdx = 0
  /\ calls[2].newIdx = -1 /\ calls[2].oldIdx = 1

IndexPath(n) ==
  <<[kind |-> "child", name |-> <<"c">>, index |-> 0],
    [kind |-> "index", name |-> <<>>, index |-> n]>>

\* C9: in the per-index revision the invocation for the new element at index
\* n carries the path fldPath.Index(n), an old-only invocation for the old
\* element at index j carries fldPath.Index(j), and no path holds a key
\* segment.
C9_PerIndexPath ==
  rev = "perIndex" =>
    \A n \in 1..Len(calls) :
      /\ calls[n].newIdx >= 0 => calls[n].path = IndexPath(calls[n].newIdx)
      /\ calls[n].newIdx < 0 => calls[n].path = IndexPath(calls[n].oldIdx)
      /\ \A m \in 1..Len(calls[n].path) : calls[n].path[m].kind # "key"

\* C9 witness: a per-index call that paired new[2] with old[0] and then made
\* an old-only invocation for old[1]
C9_Witness ==
  /\ pc = "done" /\ rev = "perIndex" /\ Len(calls) = 2
  /\ calls[1].newIdx = 2 /\ calls[1].oldIdx = 0
  /\ calls[2].newIdx = -1 /\ calls[2].oldIdx = 1

\* C10: every element handed to elementValidator satisfies the selector, and
\* a finished call on lists without a satisfying element made no invocation
\* and returns no error.
C10_OnlyMatchingElements ==
  /\ \A n \in 1..Len(calls) :
       /\ calls[n].newIdx >= 0 => Satisfies(calls[n].newObj)
       /\ calls[n].oldIdx >= 0 => Satisfies(calls[n].oldObj)
       /\ calls[n].newIdx >= 0 \/ calls[n].oldIdx >= 0
  /\ (pc = "done" /\ MatchingIdx(newList) = {} /\ MatchingIdx(oldList) = {}) =>
       (calls = <<>> /\ errs = <<>>)

\* C10 witness: a finished call of an always-failing validator on two
\* non-empty lists without a satisfying element
C10_Witness ==
  /\ pc = "done" /\ ev = "validateFalse"
  /\ Len(newList.items) >= 2 /\ Len(oldList.items) >= 2
  /\ MatchingIdx(newList) = {} /\ MatchingIdx(oldList) = {}
  /\ calls = <<>> /\ errs = <<>>

(***************************************************************************)
(* Vocabulary of the properties of the union validators.                   *)
(***************************************************************************)
\* the members declared for the unnamed union of the type, in declaration order
DeclaredMembers ==
  IF NoStr \in DOMAIN UnionsOf(shared, "Struct")
  THEN shared["Struct"][NoStr].fieldMembers ELSE <<>>

\* positions of the declared members whose getter yields a present value
PresentIdx ==
  {n \in 1..Len(DeclaredMembers) : GetterValue(MemberGetter(DeclaredMembers[n]).getter, uobj)}

RECURSIVE NamesAt(_, _)
\* the field names of the declared members at the positions of S, ascending
NamesAt(S, from) ==
  IF from > Len(DeclaredMembers) THEN <<>>
  ELSE (IF from \in S THEN <<DeclaredMembers[from].json>> ELSE <<>>) \o NamesAt(S, from + 1)

ValidatedBy(fn) == upc = "validated" /\ Len(emitted) = 1 /\ emitted[1].fn = fn

\* C4: an object validated by the emitted undiscriminated Union validator
\* gets no error exactly when one, and only one, declared member's getter
\* yields a present value.
C4_UnionExactlyOne ==
  ValidatedBy("Union") => (uerrs = <<>> <=> Cardinality(PresentIdx) = 1)

\* C4 witness: three declared members, a two-element list, one member present
C4_Witness ==
  /\ ValidatedBy("Union") /\ Len(DeclaredMembers) = 3
  /\ Len(uobj.Items.items) = 2
  /\ Cardinality(PresentIdx) = 1 /\ uerrs = <<>>

\* C5: a violation of the undiscriminated union is one error at the owning
\* path that lists all declared member names in declaration order; its value
\* is empty when no member is present and names the present members, in
\* declaration order, when several are.
C5_UnionFailureShape ==
  (ValidatedBy("Union") /\ Cardinality(PresentIdx) # 1) =>
    /\ Len(uerrs) = 1
    /\ uerrs[1].path = <<>>
    /\ uerrs[1].names = NamesAt(1..Len(DeclaredMembers), 1)
    /\ Cardinality(PresentIdx) = 0 => uerrs[1].value = <<>>
    /\ Cardinality(PresentIdx) > 1 => uerrs[1].value = NamesAt(PresentIdx, 1)

\* C5 witness: three different declared members, the first and the third present
C5_Witness ==
  /\ ValidatedBy("Union") /\ Len(DeclaredMembers) = 3
  /\ PresentIdx = {1, 3}
  /\ DeclaredMembers[1] # DeclaredMembers[3]
  /\ Len(uerrs) = 1 /\ Len(uerrs[1].value) = 2 /\ Len(uerrs[1].names) = 3

\* an element of the list satisfies every key of a declared selector
SatisfiesSelector(item, sel) ==
  \A k \in DOMAIN sel :
    IF k = sType THEN item.Type = sel[k]
    ELSE IF k = sStatus THEN item.Status = sel[k]
    ELSE item.StringPtr.set /\ item.StringPtr.val = sel[k]

\* C6 as stated: the getter emitted for a list-derived member yields a
\* present value exactly when some element of the object's list satisfies
\* every key of the selector the member was declared with (never for a nil
\* or empty list, once however many elements match).
C6_VirtualPresenceAsStated ==
  (upc = "validated" /\ Len(emitted) = 1) =>
    \A n \in 1..Len(DeclaredMembers) :
      isVirtualListMember(DeclaredMembers[n]) =>
        (GetterValue(emitted[1].getters[n], uobj)
           <=> \E m \in 1..Len(uobj.Items.items) :
                 SatisfiesSelector(uobj.Items.items[m], DeclaredMembers[n].declSel))

\* C7: an object validated by the emitted DiscriminatedUnion validator gets
\* no error exactly when the discriminator field holds the discriminator
\* value of a declared member whose getter yields a present value, whatever
\* the other members hold; otherwise it gets one error that carries the
\* discriminator's value and the legal values.
C7_DiscriminatedUnion ==
  ValidatedBy("DiscriminatedUnion") =>
    /\ uerrs = <<>> <=>
         \E n \in PresentIdx : DeclaredMembers[n].Name = uobj.Disc
    /\ uerrs # <<>> =>
         /\ Len(uerrs) = 1
         /\ uerrs[1].value = <<uobj.Disc>>
         /\ uerrs[1].names =
              [n \in 1..Len(DeclaredMembers) |-> DeclaredMembers[n].Name]

\* C7 witness: the discriminator selects a present member while the other
\* declared member is present too, and no error is reported
C7_Witness ==
  /\ ValidatedBy("DiscriminatedUnion") /\ Len(DeclaredMembers) = 2
  /\ DeclaredMembers[1].Name = sRealA /\ DeclaredMembers[2].Name = sRealB
  /\ uobj.Disc = sRealA /\ uobj.Ra /\ uobj.Rb
  /\ uerrs = <<>>

(***************************************************************************)
(* Properties of the selector compiler and of the Element Matcher.         *)
(***************************************************************************)
\* the selector keys that name a string or optional-string member
StringKeys == {sType, sStatus, sStringPtr}

\* C11: the predicate generated for a selector of string and optional-string
\* keys is generated by every revision, returns false for a nil element, and
\* for a non-nil element returns true exactly when every key's field equals
\* the expected value (optional-string: non-nil and pointee equal); the
\* semantic matcher of the pairing model agrees with it.
C11_MatcherPredicate ==
  /\ (fpc # "ready" /\ DOMAIN fin.sel \subseteq StringKeys) =>
        (fpc # "failed" /\ fout.lit.ok /\ WellTyped(fout.lit))
  /\ fpc = "done" =>
        /\ fin.isNil => ~fout.result
        /\ ~fin.isNil => (fout.result <=> SatisfiesSelector(fin.item, fin.sel))
        /\ Matches(fin.isNil, fin.item, fin.sel) = fout.result

\* C11 witness: a three-key selector rejected only because the element's
\* optional string is nil
C11_Witness ==
  /\ fpc = "done" /\ ~fin.isNil
  /\ DOMAIN fin.sel = StringKeys
  /\ fin.item.Type = fin.sel[sType] /\ fin.item.Status = fin.sel[sStatus]
  /\ ~fin.item.StringPtr.set
  /\ ~fout.result

\* C12 as stated: compiling a selector fails, and no predicate is emitted,
\* exactly when some key names no member of the element type or names a
\* member that is neither a string nor a pointer to a string.
C12_SelectorCompileErrorsAsStated ==
  fpc # "ready" =>
    (fout.lit.ok <=> DOMAIN fin.sel \subseteq StringKeys)

(***************************************************************************)
(* Properties of GeneratePathForMap.                                       *)
(***************************************************************************)
\* the keys of the model in ascending lexicographic order, written out
AscendingKeys == <<sStatus, sStringPtr, sType>>

\* what %q puts between the quotes for each value of the model, written out
GoQuotedInner(v) ==
  IF v = sAquoteB THEN <<"a", "\\", "\"", "b">>
  ELSE IF v = sAbackslashB THEN <<"a", "\\", "\\", "b">>
  ELSE v

RECURSIVE ExpectedPath(_, _, _, _)
\* the pairs of m for the keys AscendingKeys[n..], each as key="inner(value)",
\* a comma before every pair but the first
ExpectedPath(m, inner(_), n, first) ==
  IF n > Len(AscendingKeys) THEN <<>>
  ELSE IF AscendingKeys[n] \notin DOMAIN m THEN ExpectedPath(m, inner, n + 1, first)
  ELSE (IF first THEN <<>> ELSE <<",">>)
       \o AscendingKeys[n] \o <<"=", "\"">> \o inner(m[AscendingKeys[n]]) \o <<"\"">>
       \o ExpectedPath(m, inner, n + 1, FALSE)

\* C13: the result of GeneratePathForMap is the key="value" pairs of all
\* entries (values quoted by %q) in ascending key order, joined by single
\* commas without a leading or trailing one; the empty map gives the empty
\* string; the result is the same whatever order the map iteration yields.
C13_CanonicalSelectorPath ==
  fpc = "done" =>
    /\ fout = ExpectedPath(fin, GoQuotedInner, 1, TRUE)
    /\ fout = GeneratePathForMap(fin)
    /\ DOMAIN fin = {} => fout = <<>>
    /\ fout # <<>> => (Head(fout) # "," /\ fout[Len(fout)] # ",")

\* C13 witness: a three-entry map
C13_Witness ==
  /\ fpc = "done" /\ DOMAIN fin = {sType, sStatus, sStringPtr}
  /\ fin[sType] = sA /\ fin[sStatus] = sT /\ fin[sStringPtr] = NoStr
  /\ Len(fout) = 32

Unchanged(v) == v

\* C14 as stated: every value is emitted between two double quotes with its
\* characters unchanged, also when it holds a double quote or a backslash.
C14_ValuesUnescapedAsStated ==
  fpc = "done" => fout = ExpectedPath(fin, Unchanged, 1, TRUE)

\* C14 amended: every value is emitted between two double quotes as %q
\* writes it: a double quote or a backslash of the value is preceded by a
\* backslash, every other character is unchanged, so a value without either
\* is emitted unchanged.
C14_ValuesGoQuoted ==
  fpc = "done" =>
    /\ fout = ExpectedPath(fin, GoQuotedInner, 1, TRUE)
    /\ (\A k \in DOMAIN fin : fin[k] \notin {sAquoteB, sAbackslashB}) =>
          fout = ExpectedPath(fin, Unchanged, 1, TRUE)

\* C14 witness: a value with a double quote and a value with a backslash
C14_Witness ==
  /\ fpc = "done" /\ DOMAIN fin = {sType, sStatus}
  /\ fin[sType] = sAquoteB /\ fin[sStatus] = sAbackslashB
  /\ fout = <<"s", "t", "a", "t", "u", "s", "=", "\"", "a", "\\", "\\", "b", "\"", ",",
              "t", "y", "p", "e", "=", "\"", "a", "\\", "\"", "b", "\"">>

(***************************************************************************)
(* Properties of Subfield.                                                 *)
(***************************************************************************)
\* C15: one call of Subfield reads the field of newStruct, reads the field of
\* oldStruct only when oldStruct is not nil and otherwise takes the zero
\* value as the old value, calls the validator once with the path
\* fldPath.Child(fldName) and the two values, and returns the validator's
\* errors unchanged and in order.
C15_Subfield ==
  fpc = "done" =>
    /\ fout.gets = IF fin.oldStruct.isNil THEN <<"new">> ELSE <<"new", "old">>
    /\ Len(fout.vcalls) = 1
    /\ fout.vcalls[1].path =
         <<[kind |-> "child", name |-> <<"c">>, index |-> 0],
           [kind |-> "child", name |-> fin.fldName, index |-> 0]>>
    /\ fout.vcalls[1].newVal = fin.newStruct.f
    /\ fout.vcalls[1].oldVal = IF fin.oldStruct.isNil THEN NilPtr ELSE fin.oldStruct.f
    /\ fout.errs = ValidateFunc(fin.validator, fout.vcalls[1].path,
                                fout.vcalls[1].newVal, fout.vcalls[1].oldVal)
    /\ fin.validator = "twoErrors" =>
         (Len(fout.errs) = 2 /\ fout.errs[1].detail = "first"
                             /\ fout.errs[2].detail = "second")
    /\ fin.validator = "validateTrue" => fout.errs = <<>>

\* C15 witness: a nil oldStruct, a set new value, the immutability validator
\* reporting the difference from the zero value
C15_Witness ==
  /\ fpc = "done" /\ fin.oldStruct.isNil /\ fin.newStruct.f = PtrTo(sA)
  /\ fin.validator = "immutable"
  /\ fout.gets = <<"new">> /\ Len(fout.errs) = 1

(***************************************************************************)
(* Properties of the union accumulator and of the emission.                *)
(***************************************************************************)
UnionNamesUsed == {NoStr, sUnionB}

\* the logged directive calls with this tag for union u of type t, in call order
Declared(tag, t, u) ==
  LET isOne(d) == d.tag = tag /\ d.parent = t /\ d.union = u
  IN SelectSeq(dlog, isOne)

HasDescriptor(t, u) == t \in DOMAIN shared /\ u \in DOMAIN shared[t]

\* C16: after any sequence of successful directive calls the descriptor of
\* (T, U) exists exactly when a directive was declared for (T, U); its
\* members are the member directives declared for (T, U), one entry per call
\* and in call order; it has a discriminator exactly when one was declared
\* for (T, U), the one of the latest such call. Directives of another type
\* or union name do not show in it.
C16_AccumulationKeyedByTypeAndName ==
  \A t \in Types, u \in UnionNamesUsed :
    LET ms == Declared("member", t, u)
        ds == Declared("discriminator", t, u)
    IN /\ HasDescriptor(t, u) <=> (ms # <<>> \/ ds # <<>>)
       /\ HasDescriptor(t, u) =>
            /\ shared[t][u].fieldMembers = [n \in 1..Len(ms) |-> ms[n].member]
            /\ shared[t][u].fields =
                 [n \in 1..Len(ms) |-> <<ms[n].member.json, ms[n].member.Name>>]
            /\ shared[t][u].hasDiscriminator <=> ds # <<>>
            /\ ds # <<>> =>
                 /\ shared[t][u].discriminatorMember = ds[Len(ds)].member
                 /\ shared[t][u].discriminator = ds[Len(ds)].member.json

\* C16 witness: a member declared for the unnamed union of Struct, then a
\* member declared for the unnamed union of Other; each descriptor holds one
C16_Witness ==
  /\ Len(dlog) = 2
  /\ dlog[1].tag = "member" /\ dlog[1].parent = "Struct" /\ dlog[1].union = NoStr
  /\ dlog[2].tag = "member" /\ dlog[2].parent = "Other" /\ dlog[2].union = NoStr
  /\ Len(shared["Struct"][NoStr].fieldMembers) = 1
  /\ Len(shared["Other"][NoStr].fieldMembers) = 1

\* C17 as stated: whatever the order of the calls, the latest emission for a
\* type covers every directive declared on the type: none of them was
\* processed after the emission read the descriptor.
C17_TwoPassAsStated ==
  erun.type # "" =>
    \A k \in 1..Len(dlog) : dlog[k].parent = erun.type => k <= erun.at

\* C18 as stated: no second unionDiscriminator call for a union name of a
\* type returns without error, so a declared discriminator is never replaced.
C18_SecondDiscriminatorAsStated ==
  \A t \in Types, u \in UnionNamesUsed : Len(Declared("discriminator", t, u)) <= 1

\* within one emission the unions come in ascending name order and the i-th
\* getter of each belongs to the i-th (field name, member name) pair
EmissionOrderWithinRun ==
  (erun.type # "" /\ erun.ok) =>
    /\ \A a, b \in 1..Len(emitted) : a < b => StrLess(emitted[a].union, emitted[b].union)
    /\ \A a \in 1..Len(emitted) :
         LET f == emitted[a]
             ms == shared[erun.type][f.union].fieldMembers
         IN erun.at = Len(dlog) =>
              /\ Len(f.getters) = Len(ms) /\ Len(f.members) = Len(ms)
              /\ \A n \in 1..Len(ms) :
                   /\ f.members[n] = <<ms[n].json, ms[n].Name>>
                   /\ f.getters[n].virtual = isVirtualListMember(ms[n])
                   /\ ~f.getters[n].virtual => f.getters[n].field = ms[n].Name

\* the two latest emissions were for the same type and no directive of the
\* type was processed between them
SameDescriptorTwice ==
  /\ prev.type # "" /\ prev.type = erun.type
  /\ \A k \in (prev.at + 1)..erun.at : dlog[k].parent # erun.type

\* C19 as stated: an emission gives the unions in ascending name order and
\* the getters in declaration order, and two emissions over the same
\* descriptor give the same sequence of functions and variables.
C19_EmissionOrderAsStated ==
  /\ EmissionOrderWithinRun
  /\ SameDescriptorTwice => (prev.ok = erun.ok /\ prev.functions = emitted)

\* C20 as stated: a member never appears twice in a descriptor, so processing
\* a unionMember directive a second time changes nothing.
C20_IdempotentAsStated ==
  \A t \in Types, u \in UnionNamesUsed :
    HasDescriptor(t, u) =>
      \A a, b \in 1..Len(shared[t][u].fieldMembers) :
        a # b => shared[t][u].fieldMembers[a] # shared[t][u].fieldMembers[b]

(***************************************************************************)
(* Properties of the subfield directive compiler.                          *)
(***************************************************************************)
DirectiveDone == fpc = "done" /\ Len(fin.args) = 1

\* the argument is a non-empty JSON object literal mapping names to strings
IsSelectorLiteral(arg) ==
  /\ arg.valid /\ arg.doc.kind = "object" /\ arg.doc.pairs # <<>>
  /\ \A n \in 1..Len(arg.doc.pairs) : arg.doc.pairs[n][2].kind = "string"

\* the key/value pairs of such a literal
LiteralPairs(arg) ==
  [k \in {arg.doc.pairs[n][1] : n \in 1..Len(arg.doc.pairs)} |->
     JSONMember(arg.doc, k).s]

IsBareIdentifier(arg) == ~arg.valid /\ arg.argStr \in {sType, sStatus, sId}

\* C21: a non-empty JSON object literal mapping field wire-names to string
\* values is accepted as a list selector with exactly those pairs, a bare
\* identifier is compiled as a direct-field subfield, and an empty argument
\* and an empty object literal are rejected.
C21_SelectorLiteralSyntaxAsStated ==
  DirectiveDone =>
    LET arg == fin.args[1]
    IN /\ IsSelectorLiteral(arg) =>
            /\ fout.parsed.err = "" /\ fout.parsed.SubName = NoStr
            /\ fout.parsed.ListElems = LiteralPairs(arg)
       /\ IsBareIdentifier(arg) =>
            fout.parsed.err = "" /\ fout.parsed.SubName = arg.argStr
       /\ (arg.argStr = NoStr \/ arg = JSONArg(JObj(<<>>))) => fout.parsed.err # ""

\* a key that is the JSON name of a field of the element type
IsJSONFieldName(k) ==
  k # NoStr /\ \E n \in 1..Len(ElemMembers) : ElemMembers[n].json = k

IsListSelectorCall ==
  DirectiveDone /\ fout.parsed.err = "" /\ fout.parsed.SubName = NoStr

\* C22: with a list selector, GetValidations returns an error and no
\* validation functions when the tagged field is not a slice or array, when
\* the element type is not a struct, or when a selector key is not the JSON
\* name of a field of the element type.
C22_ListAccessCompileErrors ==
  /\ IsListSelectorCall
  /\ \/ fin.context.Type.Kind \notin {"Slice", "Array"}
     \/ fin.context.Type.Elem # "Struct"
     \/ \E k \in DOMAIN fout.parsed.ListElems : ~IsJSONFieldName(k)
  => /\ fout.result.err # ""
     /\ fout.result.Functions = <<>> /\ fout.result.Variables = <<>>

\* a list of builtin elements is tagged with a selector whose payload yields
\* functions, and the call has returned
C22_Witness ==
  /\ IsListSelectorCall
  /\ fin.context.Type = TypeOf("Slice", "Builtin")
  /\ ~fin.extracted.err /\ fin.extracted.Functions # <<>>
  /\ fout.result.err = "can only be used on list of structs"

\* C29: a list-selector directive compiles only when the list field carries
\* +listType=map and at least one +listMapKey and the selector contains every
\* declared key; otherwise GetValidations returns an error and no functions.
C29_ListMapKeyRequirementAsStated ==
  /\ IsListSelectorCall /\ ~fin.context.Member.isNil
  /\ LET declared == parseListMapKeys(fin.context.Member.CommentLines)
     IN \/ declared = <<>>
        \/ \E n \in 1..Len(declared) : declared[n] \notin DOMAIN fout.parsed.ListElems
  => fout.result.err # "" /\ fout.result.Functions = <<>>

\* the flag is written as true in the flags object of the argument
Requested(flag) ==
  JSONMember(JSONMember(fin.args[1].doc, sFlags), flag) = JBool(TRUE)

\* C30: every ListMapElementByKey call emitted for a list-selector directive
\* has ShortCircuit exactly when requested and NonError only together with
\* ShortCircuit (NonError alone is dropped), and there is one call per
\* nested validation function, in the nested functions' order.
C30_ListMapCallFlags ==
  IsListSelectorCall /\ fout.result.err = "" =>
    /\ Len(fout.result.Functions) = Len(fin.extracted.Functions)
    /\ \A n \in 1..Len(fout.result.Functions) :
         LET f == fout.result.Functions[n]
         IN /\ f.fn = "ListMapElementByKey"
            /\ f.wrapped = fin.extracted.Functions[n]
            /\ "ShortCircuit" \in f.flags <=> Requested(sShortCircuit)
            /\ "NonError" \in f.flags <=>
                 Requested(sNonError) /\ Requested(sShortCircuit)
            /\ f.flags \subseteq {"ShortCircuit", "NonError"}

\* NonError is requested without ShortCircuit, the payload yields two nested
\* functions, and two calls without flags have been emitted
C30_Witness ==
  /\ IsListSelectorCall /\ fout.result.err = ""
  /\ Requested(sNonError) /\ ~Requested(sShortCircuit)
  /\ Len(fin.extracted.Functions) = 2
  /\ Len(fout.result.Functions) = 2
  /\ fout.result.Functions[1].flags = {}
  /\ fout.result.Functions[1].wrapped.name = "validateFalse"
  /\ fout.result.Functions[2].wrapped.name = "immutable"

(***************************************************************************)
(* Properties of failing directive calls.                                  *)
(***************************************************************************)
\* C23: after a directive call that returned an error (of the discriminator
\* validator, of the member validator, or of a list directive carrying a
\* unionMember payload) the accumulator is exactly as it was before the call.
C23_FailedDirectiveLeavesAccumulatorAsStated ==
  fpc = "called" /\ fout.err # "" => shared = fout.before

\* the same for the two union tag validators alone
FailedUnionTagCallLeavesAccumulator ==
  fpc = "called" /\ fout.err # "" /\ fin.validator # "subfield" =>
    shared = fout.before

(***************************************************************************)
(* Properties of a whole call of ListMapElementByKey.                      *)
(***************************************************************************)
\* the invocations a call is to make, as a function of its inputs alone: one
\* per satisfying element of newList with the old element of the same rank,
\* then one per satisfying element of oldList of a higher rank
ExpectedInvocation(k) ==
  LET nn == Cardinality(MatchingIdx(newList))
      n == IF k <= nn THEN NthMatching(newList, k) ELSE -1
      j == NthMatching(oldList, k)
  IN [path |-> IF rev = "perIndex" THEN IndexPath(IF n >= 0 THEN n ELSE j)
               ELSE GroupedPath,
      newIdx |-> n, oldIdx |-> j,
      newObj |-> IF n < 0 THEN ZeroItem ELSE newList.items[n + 1],
      oldObj |-> IF j < 0 THEN ZeroItem ELSE oldList.items[j + 1],
      newIsCopy |-> (n >= 0 /\ rev = "reflect")]

ExpectedInvocations ==
  [k \in 1..Max(Cardinality(MatchingIdx(newList)), Cardinality(MatchingIdx(oldList)))
     |-> ExpectedInvocation(k)]

\* the errors of a deterministic element validator over those invocations
ExpectedErrors ==
  IF ev = "validateFalse"
  THEN [k \in 1..Len(ExpectedInvocations) |->
          [path |-> ExpectedInvocations[k].path, detail |-> "forced failure"]]
  ELSE <<>>

\* C24: the invocations and the errors of a finished call are determined by
\* its inputs (lists, selector, element validator), in order and content, so
\* two runs on the same inputs agree; and no step of a call changes newList,
\* oldList or their elements.
C24_Deterministic ==
  /\ [](pc = "done" => calls = ExpectedInvocations /\ errs = ExpectedErrors)
  /\ [][pc # "idle" => UNCHANGED <<newList, oldList>>]_vars

\* a finished call of the reflection-based revision with an always-failing
\* validator: two pairs, then an old-only invocation, three errors
C24_Witness ==
  /\ pc = "done" /\ rev = "reflect" /\ ev = "validateFalse"
  /\ Len(calls) = 3 /\ Len(errs) = 3
  /\ calls[1].oldIdx >= 0 /\ calls[2].oldIdx >= 0 /\ calls[3].newIdx < 0
  /\ Len(newList.items) = 3 /\ Len(oldList.items) = 3

\* how many invocations carry the element at index n as new / as old argument
TimesNew(n) == Cardinality({m \in 1..Len(calls) : calls[m].newIdx = n})
TimesOld(n) == Cardinality({m \in 1..Len(calls) : calls[m].oldIdx = n})

\* C27: in a finished call every satisfying element of newList is the new
\* argument of exactly one invocation, every satisfying element of oldList
\* the old argument of exactly one, no old element is paired with two new
\* elements, and the number of invocations is the larger of the two counts.
C27_ExactlyOnceCoverage ==
  pc = "done" =>
    /\ \A n \in MatchingIdx(newList) : TimesNew(n) = 1
    /\ \A n \in MatchingIdx(oldList) : TimesOld(n) = 1
    /\ \A a, b \in 1..Len(calls) :
         (a # b /\ calls[a].oldIdx >= 0) => calls[a].oldIdx # calls[b].oldIdx
    /\ Len(calls) = Max(Cardinality(MatchingIdx(newList)),
                        Cardinality(MatchingIdx(oldList)))

\* a finished call on two satisfying new elements and three satisfying old
\* ones: three invocations
C27_Witness ==
  /\ pc = "done"
  /\ Cardinality(MatchingIdx(newList)) = 2 /\ Cardinality(MatchingIdx(oldList)) = 3
  /\ Len(calls) = 3 /\ calls[3].newIdx < 0

\* C28: in the per-index revision no two invocations of one call receive the
\* same path.
C28_PerIndexPathsDistinctAsStated ==
  rev = "perIndex" =>
    \A a, b \in 1..Len(calls) : a # b => calls[a].path # calls[b].path

(***************************************************************************)
(* Properties of the virtual union members.                                *)
(***************************************************************************)
\* C25: the presence test generated for a virtual union member is equivalent
\* to the predicate createMatchFnLiteral compiles for the same selector: it
\* is a test the compiler accepts, and for every element it holds exactly
\* when the predicate returns true, pointer fields included.
C25_PresenceTestEquivalentAsStated ==
  fpc = "done" /\ fout.matchFn.ok /\ WellTyped(fout.matchFn) =>
    /\ fout.getter.ok /\ WellTyped(fout.getter)
    /\ EvalMatchFn(fout.getter, FALSE, fin.item)
         <=> EvalMatchFn(fout.matchFn, FALSE, fin.item)

\* the same for selectors whose keys name string fields
PresenceTestEquivalentOnStrings ==
  fpc = "done" /\ DOMAIN fin.sel \subseteq {sType, sStatus} =>
    /\ fout.getter.ok /\ WellTyped(fout.getter)
    /\ EvalMatchFn(fout.getter, FALSE, fin.item)
         <=> EvalMatchFn(fout.matchFn, FALSE, fin.item)

\* C26: the virtual member name is parsed back to exactly the list field
\* name and the selector it was built from, and no other (list field,
\* selector) pair produces the same name.
C26_NameRoundTripAsStated ==
  fpc = "done" =>
    /\ fout.meta.ok
    /\ fout.meta.listFieldName = fin.list
    /\ fout.meta.selectorMap = fin.sel
    /\ \A l \in NamingLists, sel \in NamingSelectors :
         VirtualMemberName(l, sel) = fout.name => (l = fin.list /\ sel = fin.sel)

\* the same for list field names without an underscore and selector values
\* without a quote, colon, bracket or underscore
NameRoundTripOnPlainNames ==
  (/\ fpc = "done" /\ fin.list = sItems
   /\ \A k \in DOMAIN fin.sel : fin.sel[k] \in {sA, sT}) =>
    /\ fout.meta.ok
    /\ fout.meta.listFieldName = fin.list
    /\ fout.meta.selectorMap = fin.sel

====
